---- MODULE Spec2Model ----
(***************************************************************************)
(* A model of the cannoli graph engine: the object state machine           *)
(* (Pending / Executing / Complete / Rejected), the listener cascade that  *)
(* drives a wired graph, the group and repeat-group handlers, the edge     *)
(* load/reset rules, the node distribution step loadOutgoingEdges, the    *)
(* HTTP and hook nodes, and the passes of the factory (floating nodes,     *)
(* group membership, group typing, what parse returns).                    *)
(*                                                                         *)
(* Callbacks in the source are synchronous: completed()/reject() emit to   *)
(* the listeners in registration order and every listener runs to its end  *)
(* (recursively) before the next one.  An action of this module is one     *)
(* such run-to-completion step: the initial kick, or the continuation of   *)
(* one asynchronous execute() after its await.  The cascade inside a step  *)
(* is computed by Drain over a stack of frames of primitive calls.         *)
(***************************************************************************)
EXTENDS Integers, Sequences, FiniteSets, TLC

VARIABLES
    scn,          \* which diagram is being run (fixed by Init)
    memberDeps,   \* whether a typed group's dependency list holds its members
    started,      \* the run coordinator has made the initial kick
    status,       \* id -> CannoliObjectStatus
    content,      \* edge id -> Text (edge.content)
    text,         \* node id -> Text (vertex.text)
    currentLoop,  \* group id -> [def, n] (RepeatGroup.currentLoop)
    inflight,     \* node id -> number of execute() calls suspended at an await
    stream,       \* node id -> [on, xs]: reading a stream, the chunks read so far
    execs,        \* id -> execute() invocations since the object last became Pending
    passes,       \* group id -> membersFinished invocations
    graph,        \* id -> the wired object (fixed by Init)
    order,        \* the ids in graph insertion order
    steps,        \* what the last action did, in order (status changes, calls)
    fin,          \* input of the function under test (function specifications)
    fout          \* its output

vars == <<scn, memberDeps, graph, order, started, status, content, text, currentLoop,
          inflight, stream, execs, passes, steps, fin, fout>>

-----------------------------------------------------------------------------
(* Bounds of the model *)

MaxItems == 2
MaxLabelLen == 2
MaxDeps == 2
MaxChunks == 2
MaxLogs == 2
MaxGroups == 2
MaxTokens == 4
MaxVarEdges == 2

-----------------------------------------------------------------------------
(* Text values.  A string is a record: k = "null" is null/undefined,       *)
(* k = "plain" is an ordinary string made of the tokens xs ("" is xs = <<>>), *)
(* k = "json" is the text of a JSON array whose i-th element has type      *)
(* pre[i] ("str" or "num") and spelling xs[i], k = "md" is a text of lines *)
(* where line i starts with pre[i] ("- ", "1. " or "") followed by xs[i],  *)
(* k = "args" is the JSON text {"choice": xs[1]} of a function call, and   *)
(* k = "bad" a text that JSON.parse refuses.                               *)

Null == [k |-> "null", pre |-> <<>>, xs |-> <<>>]
Plain(xs) == [k |-> "plain", pre |-> <<>>, xs |-> xs]
Str(s) == IF s = "" THEN Plain(<<>>) ELSE Plain(<<s>>)
Args(choice) == [k |-> "args", pre |-> <<>>, xs |-> <<choice>>]
\* Function-call arguments that are not JSON.
BadArgs == [k |-> "bad", pre |-> <<>>, xs |-> <<"{">>]

\* JavaScript truthiness of a string-or-null: null and "" are falsy.
Truthy(t) == t.k # "null" /\ ~(t.k = "plain" /\ t.xs = <<>>)

-----------------------------------------------------------------------------
(* The diagrams.  Objects are listed in graph insertion order: the canvas  *)
(* nodes (groups included) first, then the canvas edges.                   *)

NodeRec(id, type, groups) ==
    [id |-> id, kind |-> "Node", type |-> type, text |-> "", label |-> <<>>,
     color |-> "", source |-> "", target |-> "", isReflexive |-> FALSE,
     groups |-> groups]

GroupRec(id, label, groups) ==
    [id |-> id, kind |-> "Group", type |-> "", text |-> "", label |-> label,
     color |-> "", source |-> "", target |-> "", isReflexive |-> FALSE,
     groups |-> groups]

EdgeRec(id, type, txt, source, target, isReflexive) ==
    [id |-> id, kind |-> "Edge", type |-> type, text |-> txt, label |-> <<>>,
     color |-> "", source |-> source, target |-> target,
     isReflexive |-> isReflexive, groups |-> <<>>]

\* A choice node with three choice edges and one plain edge.
ChooseCanvas ==
    << NodeRec("ch", "Choose", <<>>), NodeRec("t1", "Call", <<>>),
       NodeRec("t2", "Call", <<>>),
       EdgeRec("x1", "Choice", "A", "ch", "t1", FALSE),
       EdgeRec("x2", "Choice", "B", "ch", "t2", FALSE),
       EdgeRec("x3", "Choice", "B", "ch", "t2", FALSE),
       EdgeRec("x4", "Blank", "", "ch", "t1", FALSE) >>

\* Two call nodes logging into one content node.
LoggingCanvas ==
    << NodeRec("c1", "Call", <<>>), NodeRec("c2", "Call", <<>>),
       NodeRec("k", "Content", <<>>), NodeRec("t", "Call", <<>>),
       EdgeRec("l1", "Logging", "", "c1", "k", FALSE),
       EdgeRec("l2", "Logging", "", "c2", "k", FALSE),
       EdgeRec("w", "Blank", "", "k", "t", FALSE) >>

\* A group labelled "2" fed by one edge, holding a two-node chain with a
\* reflexive edge back to its head.
RepeatCanvas ==
    << NodeRec("a", "Call", <<>>), GroupRec("R", <<"2">>, <<>>),
       NodeRec("m1", "Call", <<"R">>), NodeRec("m2", "Call", <<"R">>),
       EdgeRec("e0", "Blank", "", "a", "R", FALSE),
       EdgeRec("e1", "Blank", "", "m1", "m2", FALSE),
       EdgeRec("er", "Blank", "", "m2", "m1", TRUE) >>

\* A content node whose text is a list, with item edges and one plain edge.
ListCanvas ==
    << NodeRec("p", "Content", <<>>), NodeRec("u", "Call", <<>>),
       EdgeRec("i1", "Item", "", "p", "u", FALSE),
       EdgeRec("b", "Blank", "", "p", "u", FALSE),
       EdgeRec("i2", "Item", "", "p", "u", FALSE),
       EdgeRec("i3", "Item", "", "p", "u", FALSE) >>

\* A group labelled "a" around one call node; outside it a content node
\* with a logging edge to another call node.
BasicCanvas ==
    << GroupRec("B", <<"a">>, <<>>), NodeRec("b1", "Call", <<"B">>),
       NodeRec("q", "Content", <<>>), NodeRec("t", "Call", <<>>),
       EdgeRec("eb", "Blank", "", "b1", "t", FALSE),
       EdgeRec("lq", "Logging", "", "q", "t", FALSE) >>

\* A group labelled "1" fed by one edge, around a content node that an
\* outside call node logs into and around a node without any edge.
CrossCanvas ==
    << NodeRec("a", "Call", <<>>), NodeRec("c", "Call", <<>>),
       GroupRec("R", <<"1">>, <<>>),
       NodeRec("k", "Content", <<"R">>), NodeRec("f", "Content", <<"R">>),
       EdgeRec("e0", "Blank", "", "a", "R", FALSE),
       EdgeRec("l", "Logging", "", "c", "k", FALSE) >>

\* An HTTP node and a hook node, each with an edge to a call node.
HookCanvas ==
    << NodeRec("g", "Http", <<>>), NodeRec("h", "Hook", <<>>),
       NodeRec("t", "Call", <<>>),
       EdgeRec("eg", "Blank", "", "g", "t", FALSE),
       EdgeRec("eh", "Blank", "", "h", "t", FALSE) >>

\* A choice node with a choice edge and a logging edge into one content
\* node, and another choice edge to a call node.
RejectCanvas ==
    << NodeRec("ch", "Choose", <<>>), NodeRec("k", "Content", <<>>),
       NodeRec("t", "Call", <<>>),
       EdgeRec("x1", "Choice", "A", "ch", "k", FALSE),
       EdgeRec("x2", "Choice", "B", "ch", "t", FALSE),
       EdgeRec("l", "Logging", "", "ch", "k", FALSE) >>

\* A group labelled "<2" around two call nodes, one with a logging edge and
\* one with a plain edge to a content node outside.
ForEachCanvas ==
    << GroupRec("F", <<"<", "2">>, <<>>),
       NodeRec("c", "Call", <<"F">>), NodeRec("d", "Call", <<"F">>),
       NodeRec("k", "Content", <<>>),
       EdgeRec("l", "Logging", "", "c", "k", FALSE),
       EdgeRec("ed", "Blank", "", "d", "k", FALSE) >>

\* A call node with a chat-response edge to a content node and a plain
\* edge to a call node; the content node has a second edge from a call node.
ChatCanvas ==
    << NodeRec("s", "Call", <<>>), NodeRec("k", "Content", <<>>),
       NodeRec("t", "Call", <<>>), NodeRec("u", "Call", <<>>),
       EdgeRec("cr", "ChatResponse", "", "s", "k", FALSE),
       EdgeRec("b", "Blank", "", "s", "t", FALSE),
       EdgeRec("eu", "Blank", "", "u", "k", FALSE) >>

Scenarios ==
    {"choose", "logging", "repeat", "list", "basic", "cross", "hook", "reject",
     "foreach", "chat"}

CanvasOf(s) ==
    CASE s = "choose" -> ChooseCanvas
      [] s = "logging" -> LoggingCanvas
      [] s = "repeat" -> RepeatCanvas
      [] s = "basic" -> BasicCanvas
      [] s = "cross" -> CrossCanvas
      [] s = "hook" -> HookCanvas
      [] s = "reject" -> RejectCanvas
      [] s = "foreach" -> ForEachCanvas
      [] s = "chat" -> ChatCanvas
      [] OTHER -> ListCanvas

Range(seq) == {seq[i] : i \in 1..Len(seq)}

RECURSIVE Flatten(_)
Flatten(seqs) == IF seqs = <<>> THEN <<>> ELSE Head(seqs) \o Flatten(Tail(seqs))

\* Object.values(graph) of the factory, as ids, and one of its objects.
CanvasIds(cv) == [i \in 1..Len(cv) |-> cv[i].id]
CanvasObj(cv, id) == cv[CHOOSE i \in 1..Len(cv) : cv[i].id = id]

\* setAllIncomingAndOutgoingEdges: the edges that leave / reach vertex v.
setOutgoingEdges(cv, v) ==
    SelectSeq(CanvasIds(cv), LAMBDA id :
        CanvasObj(cv, id).kind = "Edge" /\ CanvasObj(cv, id).source = v)
setIncomingEdges(cv, v) ==
    SelectSeq(CanvasIds(cv), LAMBDA id :
        CanvasObj(cv, id).kind = "Edge" /\ CanvasObj(cv, id).target = v)

NoEdges(cv, i) ==
    /\ cv[i].kind = "Node"
    /\ setOutgoingEdges(cv, cv[i].id) = <<>>
    /\ setIncomingEdges(cv, cv[i].id) = <<>>

\* A floating node built with the chain of groups of the vertex it replaces.
FloatingKeepsGroups(cv) ==
    [i \in 1..Len(cv) |->
        IF NoEdges(cv, i) THEN [cv[i] EXCEPT !.type = "Floating"] ELSE cv[i]]

\* createNodesAndGroups: a node without edges becomes a floating node, built
\* without the groups of the vertex; any other vertex keeps what it has.
createNodesAndGroups(cv) ==
    [i \in 1..Len(cv) |->
        IF NoEdges(cv, i)
        THEN [cv[i] EXCEPT !.type = "Floating", !.groups = <<>>]
        ELSE cv[i]]

-----------------------------------------------------------------------------
(* Group typing (CannoliGroup, pass 7 of the factory).  A label is a        *)
(* sequence of one-character strings.                                      *)

GroupPrefixMap == {"<"}
GroupColorMap == {"5"}

IsDigit(c) == c \in {"0", "1", "2", "3", "4", "5", "6", "7", "8", "9"}
DigitValue(c) ==
    CASE c = "0" -> 0 [] c = "1" -> 1 [] c = "2" -> 2 [] c = "3" -> 3
      [] c = "4" -> 4 [] c = "5" -> 5 [] c = "6" -> 6 [] c = "7" -> 7
      [] c = "8" -> 8 [] OTHER -> 9

NaN == [nan |-> TRUE, n |-> 0]
Num(n) == [nan |-> FALSE, n |-> n]

RECURSIVE SkipSpace(_)
SkipSpace(str) ==
    IF str # <<>> /\ Head(str) = " " THEN SkipSpace(Tail(str)) ELSE str

RECURSIVE LeadingDigits(_)
LeadingDigits(str) ==
    IF str # <<>> /\ IsDigit(Head(str))
    THEN <<Head(str)>> \o LeadingDigits(Tail(str))
    ELSE <<>>

RECURSIVE DecimalValue(_, _)
DecimalValue(digits, acc) ==
    IF digits = <<>> THEN acc
    ELSE DecimalValue(Tail(digits), 10 * acc + DigitValue(Head(digits)))

\* JavaScript parseInt(str) in radix 10: leading blanks, an optional sign,
\* then the longest run of digits; NaN when that run is empty.
parseInt(str) ==
    LET s1 == SkipSpace(str)
        signed == s1 # <<>> /\ Head(s1) \in {"-", "+"}
        digits == LeadingDigits(IF signed THEN Tail(s1) ELSE s1)
        v == DecimalValue(digits, 0)
    IN  IF digits = <<>> THEN NaN
        ELSE IF signed /\ Head(s1) = "-" THEN Num(0 - v) ELSE Num(v)

getLabelNumber(label) ==
    LET rest == IF label # <<>> /\ Head(label) \in GroupPrefixMap
                THEN Tail(label) ELSE label
    IN  parseInt(rest)

\* getIndicatedType with the number in the label looked at first.
NumberFirst(label, color, memberTypes) ==
    IF ~getLabelNumber(label).nan THEN "Repeat"
    ELSE IF label # <<>> /\ Head(label) \in GroupPrefixMap THEN "List"
    ELSE IF color # "" /\ color \in GroupColorMap THEN "List"
    ELSE IF \A i \in 1..Len(memberTypes) : memberTypes[i] = "NonLogic"
         THEN "NonLogic"
    ELSE "Basic"

\* memberTypes: the indicated type of every member, in member order.
getIndicatedType(label, color, memberTypes) ==
    IF label # <<>> /\ Head(label) \in GroupPrefixMap THEN "List"
    ELSE IF color # "" /\ color \in GroupColorMap THEN "List"
    ELSE IF ~getLabelNumber(label).nan THEN "Repeat"
    ELSE IF \A i \in 1..Len(memberTypes) : memberTypes[i] = "NonLogic"
         THEN "NonLogic"
    ELSE "Basic"

decideType(label, color, memberTypes) ==
    getIndicatedType(label, color, memberTypes)

\* g: the untyped group [label, color, memberTypes, members, incomingEdges,
\* outgoingEdges, groups].  The result is the typed object, no object
\* (NonLogic), or the error thrown.
NoGroup(result) ==
    [result |-> result, members |-> <<>>, incomingEdges |-> <<>>,
     outgoingEdges |-> <<>>, groups |-> <<>>, bound |-> 0]

\* A typed group built without the members computed for it.
DropsRelations(g) ==
    [result |-> decideType(g.label, g.color, g.memberTypes),
     members |-> <<>>, incomingEdges |-> g.incomingEdges,
     outgoingEdges |-> g.outgoingEdges, groups |-> g.groups,
     bound |-> getLabelNumber(g.label).n]

\* createTyped asking every kind of group for a number in its label.
ThrowsOnNoNumber(g) ==
    IF getLabelNumber(g.label).nan THEN NoGroup("error")
    ELSE [result |-> decideType(g.label, g.color, g.memberTypes),
          members |-> g.members, incomingEdges |-> g.incomingEdges,
          outgoingEdges |-> g.outgoingEdges, groups |-> g.groups,
          bound |-> getLabelNumber(g.label).n]

createTyped(g) ==
    LET type == decideType(g.label, g.color, g.memberTypes)
        labelNumber == getLabelNumber(g.label)
    IN  CASE type \in {"Repeat", "List"} ->
                IF labelNumber.nan THEN NoGroup("error")
                ELSE [result |-> type, members |-> g.members,
                      incomingEdges |-> g.incomingEdges,
                      outgoingEdges |-> g.outgoingEdges,
                      groups |-> g.groups, bound |-> labelNumber.n]
          [] type = "Basic" -> NoGroup("Basic")
          [] OTHER -> NoGroup("null")

-----------------------------------------------------------------------------
(* The factory: from a diagram to the wired graph of typed objects *)

\* CannoliGroup.setMembers: the vertices, in graph order, whose chain of
\* enclosing groups holds g.
setMembers(cv, g) ==
    SelectSeq(CanvasIds(cv), LAMBDA id :
        CanvasObj(cv, id).kind # "Edge" /\ g \in Range(CanvasObj(cv, id).groups))

RECURSIVE IndicatedTypeOf(_, _)
IndicatedTypeOf(cv, id) ==
    IF CanvasObj(cv, id).kind = "Group"
    THEN LET ms == setMembers(cv, id)
         IN  getIndicatedType(CanvasObj(cv, id).label, CanvasObj(cv, id).color,
                              [i \in 1..Len(ms) |-> IndicatedTypeOf(cv, ms[i])])
    ELSE CanvasObj(cv, id).type

Untyped(cv, g) ==
    LET ms == setMembers(cv, g)
    IN  [label |-> CanvasObj(cv, g).label, color |-> CanvasObj(cv, g).color,
         memberTypes |-> [i \in 1..Len(ms) |-> IndicatedTypeOf(cv, ms[i])],
         members |-> ms, incomingEdges |-> setIncomingEdges(cv, g),
         outgoingEdges |-> setOutgoingEdges(cv, g),
         groups |-> CanvasObj(cv, g).groups]

\* createTypedObjects: what a canvas object becomes.
TypedObject(cv, id) ==
    IF CanvasObj(cv, id).kind = "Group" THEN createTyped(Untyped(cv, id))
    ELSE [result |-> CanvasObj(cv, id).type, members |-> <<>>,
          incomingEdges |-> setIncomingEdges(cv, id),
          outgoingEdges |-> setOutgoingEdges(cv, id),
          groups |-> CanvasObj(cv, id).groups, bound |-> 0]

\* setCrossingGroups: the groups an edge leaves, those around its source and
\* not around its target.
setCrossingGroups(cv, e) ==
    SelectSeq(CanvasObj(cv, CanvasObj(cv, e).source).groups, LAMBDA g :
        g \notin Range(CanvasObj(cv, CanvasObj(cv, e).target).groups))

Single(id) == [arr |-> FALSE, ids |-> <<id>>]
Singles(idseq) == [i \in 1..Len(idseq) |-> Single(idseq[i])]

\* The incoming edges handed on without the test of isReflexive.
EveryEdgeOf(cv, edges) == edges

NonReflexiveOf(cv, edges) ==
    SelectSeq(edges, LAMBDA e : ~CanvasObj(cv, e).isReflexive)

\* The dependency list of a typed object: an edge depends on its source; a
\* vertex on its non-reflexive incoming edges and on those of every group
\* that encloses it; a group, when withMembers, also on its members.
setDependencies(cv, withMembers, o) ==
    LET t == TypedObject(cv, o)
    IN  IF CanvasObj(cv, o).kind = "Edge" THEN <<Single(CanvasObj(cv, o).source)>>
        ELSE Singles(NonReflexiveOf(cv, t.incomingEdges))
             \o Singles(Flatten([i \in 1..Len(t.groups) |->
                   NonReflexiveOf(cv, TypedObject(cv, t.groups[i]).incomingEdges)]))
             \o (IF CanvasObj(cv, o).kind = "Group" /\ withMembers
                 THEN Singles(t.members) ELSE <<>>)

\* setupListeners: o hears every dependency; a group also every member.
ListensTo(cv, withMembers, o) ==
    LET deps == setDependencies(cv, withMembers, o)
    IN  UNION {Range(deps[i].ids) : i \in 1..Len(deps)}
        \cup Range(TypedObject(cv, o).members)

\* setAllGroupMembers (pass 5): every group, in graph order, runs setMembers
\* over the vertices in graph order; for a vertex whose chain holds the
\* group it appends the vertex to its members and to its own dependency
\* list, and its non-reflexive incoming edges to the list of the vertex.
setAllGroupMembers(cv) ==
    LET groups == SelectSeq(CanvasIds(cv), LAMBDA id : CanvasObj(cv, id).kind = "Group")
        added(x, g) ==
            IF x = g THEN setMembers(cv, g)
            ELSE IF x \in Range(setMembers(cv, g))
                 THEN NonReflexiveOf(cv, setIncomingEdges(cv, g))
                 ELSE <<>>
    IN  [members |-> [g \in Range(groups) |-> setMembers(cv, g)],
         dependencies |->
            [x \in Range(CanvasIds(cv)) |->
                Flatten([i \in 1..Len(groups) |-> added(x, groups[i])])]]

\* createTypedObjects keeping an entry for every object of the graph.
KeepsEveryObject(cv) == CanvasIds(cv)

\* createTypedObjects: the objects that createTyped returns, in graph order
\* (a group typed NonLogic returns none).
createTypedObjects(cv) ==
    SelectSeq(CanvasIds(cv), LAMBDA id : TypedObject(cv, id).result # "null")

\* ChooseNode.validate reports a choice node without outgoing choice edge
\* through error(): the node is Rejected, nothing is thrown.
ChooseNode_validate(cv, n) ==
    \E e \in Range(setOutgoingEdges(cv, n)) : CanvasObj(cv, e).type = "Choice"

\* The wired graph: every object with the fields the run reads.  listeners
\* are the objects that hear this one, in the order they registered.
setAllDependencies(cv, withMembers) ==
    [id \in Range(createTypedObjects(cv)) |->
        [kind |-> CanvasObj(cv, id).kind,
         type |-> TypedObject(cv, id).result,
         text |-> CanvasObj(cv, id).text,
         source |-> CanvasObj(cv, id).source,
         target |-> CanvasObj(cv, id).target,
         isReflexive |-> CanvasObj(cv, id).isReflexive,
         groups |-> TypedObject(cv, id).groups,
         members |-> TypedObject(cv, id).members,
         incomingEdges |-> TypedObject(cv, id).incomingEdges,
         outgoingEdges |-> TypedObject(cv, id).outgoingEdges,
         crossingOutGroups |-> IF CanvasObj(cv, id).kind = "Edge"
                               THEN setCrossingGroups(cv, id) ELSE <<>>,
         maxLoops |-> TypedObject(cv, id).bound,
         dependencies |-> setDependencies(cv, withMembers, id),
         listeners |-> SelectSeq(createTypedObjects(cv), LAMBDA o :
                           id \in ListensTo(cv, withMembers, o))]]

\* What parse hands back: the graph, or nothing when a pass threw.
\* rejected: the objects that validation (where the last pass runs it) has
\* left Rejected in the graph it returns.
NoGraph == [thrown |-> TRUE, graph |-> <<>>, order |-> <<>>, rejected |-> {}]

parse(canvas, withMembers, validates) ==
    LET cv == createNodesAndGroups(canvas)
    IN  IF \E id \in Range(CanvasIds(cv)) : TypedObject(cv, id).result = "error"
        THEN NoGraph
        ELSE [thrown |-> FALSE,
              graph |-> setAllDependencies(cv, withMembers),
              order |-> createTypedObjects(cv),
              rejected |-> IF validates
                           THEN {n \in Range(createTypedObjects(cv)) :
                                    /\ CanvasObj(cv, n).kind = "Node"
                                    /\ CanvasObj(cv, n).type = "Choose"
                                    /\ ~ChooseNode_validate(cv, n)}
                           ELSE {}]

\* The group class that models/edge.ts and models/node.ts test for: the
\* list group under the name ForEach.
ForEachGroup(G) ==
    [id \in DOMAIN G |->
        IF G[id].kind = "Group" /\ G[id].type = "List"
        THEN [G[id] EXCEPT !.type = "ForEach"] ELSE G[id]]

\* The fields of the running graph.
Ids == DOMAIN graph
Obj(id) == graph[id]
IdsInOrder == order
IdsOfKind(kind) == {id \in Ids : graph[id].kind = kind}
GroupType(g) == graph[g].type
Members(g) == graph[g].members
maxLoops(g) == graph[g].maxLoops
incomingEdges(v) == graph[v].incomingEdges
OutgoingOf(v) == graph[v].outgoingEdges
crossingOutGroups(e) == graph[e].crossingOutGroups
Dependencies(o) == graph[o].dependencies
Listeners(x) == graph[x].listeners

-----------------------------------------------------------------------------
(* The object protocol.  S is the mutable state of the graph:              *)
(* [status, content, text, currentLoop, inflight, stream, execs, passes,   *)
(* steps].                                                                 *)
(* A handler returns the new state, the frame of calls it goes on to make  *)
(* (executed in order, each to its end), and whether it threw.             *)

Terminal == {"Complete", "Rejected"}

MkOp(op, o) == [op |-> op, o |-> o, d |-> "", a |-> "", c |-> Null, r |-> FALSE]
LoadOp(e, c, r) == [op |-> "load", o |-> e, d |-> "", a |-> "", c |-> c, r |-> r]
RequestOp(n, r) == [op |-> "request", o |-> n, d |-> "", a |-> "", c |-> Null, r |-> r]
NotifyOp(o, d, a) == [op |-> "notify", o |-> o, d |-> d, a |-> a, c |-> Null, r |-> FALSE]

Ret(S, push) == [S |-> S, push |-> push, throw |-> FALSE]

Entry(ev, o, from, to, ok, c1, c2) ==
    [ev |-> ev, o |-> o, from |-> from, to |-> to, ok |-> ok, c1 |-> c1, c2 |-> c2,
     src |-> "", open |-> {}, dep |-> "", ready |-> FALSE]

Log(S, entry) == [S EXCEPT !.steps = Append(@, entry)]

\* throw new Error(...) in a method of o.
Throw(S, o) ==
    [S |-> Log(S, Entry("throw", o, S.status[o], S.status[o], FALSE, Null, Null)),
     push |-> <<>>, throw |-> TRUE]

SetStatus(S, o, to, by) ==
    Log([S EXCEPT !.status[o] = to],
        Entry(by, o, S.status[o], to, TRUE, Null, Null))

\* emit("update", this, status): one call per listener, in order.
Emit(x, a) == [i \in 1..Len(Listeners(x)) |-> NotifyOp(Listeners(x)[i], x, a)]

executing(S, o) == Ret(SetStatus(S, o, "Executing", "executing"), <<>>)
completed(S, o) == Ret(SetStatus(S, o, "Complete", "completed"), Emit(o, "Complete"))
reject(S, o) == Ret(SetStatus(S, o, "Rejected", "reject"), Emit(o, "Rejected"))
error(S, o) == Ret(SetStatus(S, o, "Rejected", "error"), Emit(o, "Rejected"))

\* One dependency entry as CannoliObject.allDependenciesComplete reads it.
EntryComplete(entry, statusOf, kindOf) ==
    IF entry.arr
    THEN /\ \A i \in 1..Len(entry.ids) : kindOf[entry.ids[i]] = "Edge"
         /\ \E i \in 1..Len(entry.ids) : statusOf[entry.ids[i]] = "Complete"
    ELSE statusOf[entry.ids[1]] = "Complete"

allDependenciesComplete(dependencies, statusOf, kindOf) ==
    \A i \in 1..Len(dependencies) :
        EntryComplete(dependencies[i], statusOf, kindOf)

\* One dependency entry as CannoliGroup.allEdgeDependenciesComplete reads it.
\* The set test with "some member is an edge" for "every member is an edge".
SomeNotEvery(entry, statusOf, kindOf) ==
    IF entry.arr
    THEN /\ \E i \in 1..Len(entry.ids) : statusOf[entry.ids[i]] = "Complete"
         /\ \E i \in 1..Len(entry.ids) : kindOf[entry.ids[i]] = "Edge"
    ELSE /\ statusOf[entry.ids[1]] = "Complete"
         /\ kindOf[entry.ids[1]] = "Edge"

EdgeEntryComplete(entry, statusOf, kindOf) ==
    IF entry.arr
    THEN /\ \E i \in 1..Len(entry.ids) : statusOf[entry.ids[i]] = "Complete"
         /\ \A i \in 1..Len(entry.ids) : kindOf[entry.ids[i]] = "Edge"
    ELSE /\ statusOf[entry.ids[1]] = "Complete"
         /\ kindOf[entry.ids[1]] = "Edge"

allEdgeDependenciesComplete(dependencies, statusOf, kindOf) ==
    \A i \in 1..Len(dependencies) :
        EdgeEntryComplete(dependencies[i], statusOf, kindOf)

allMembersCompleteOrRejected(members, statusOf) ==
    \A i \in 1..Len(members) :
        ~(statusOf[members[i]] # "Complete" /\ statusOf[members[i]] # "Rejected")

KindOf == [id \in Ids |-> graph[id].kind]
DepsComplete(S, o) == allDependenciesComplete(Dependencies(o), S.status, KindOf)

-----------------------------------------------------------------------------
(* load *)

CannoliEdge_load(S, e, c, r) ==
    Ret([S EXCEPT !.content[e] = IF Truthy(c) THEN c ELSE Null], <<>>)

\* The transcript a logging edge builds from one request.
Logs == Plain(<<"log">>)

\* A load that keeps the new transcript only.
KeepsLastLog(S, e, c, r) ==
    IF ~r THEN Throw(S, e) ELSE Ret([S EXCEPT !.content[e] = Logs], <<>>)

LoggingEdge_load(S, e, c, r) ==
    IF ~r THEN Throw(S, e)
    ELSE Ret([S EXCEPT !.content[e] =
                 IF @.k # "null" THEN Plain(@.xs \o <<"\n">> \o Logs.xs) ELSE Logs],
             <<>>)

Load(S, e, c, r) ==
    LET S1 == Log(S, Entry("load", e, S.status[e], S.status[e], r, S.content[e], c))
    IN  IF Obj(e).type = "Logging" THEN LoggingEdge_load(S1, e, c, r)
        ELSE CannoliEdge_load(S1, e, c, r)

-----------------------------------------------------------------------------
(* reset *)

\* CannoliObject.reset, as the edges, nodes and groups inherit it.
BaseReset(S, o) ==
    LET S1 == [S EXCEPT !.status[o] = "Pending", !.execs[o] = 0]
    IN  IF Obj(o).kind = "Edge" THEN [S1 EXCEPT !.content[o] = Null] ELSE S1

\* reset without the test of isReflexive.
ResetsReflexive(S, e) == BaseReset(S, e)

CannoliEdge_reset(S, e) == IF ~Obj(e).isReflexive THEN BaseReset(S, e) ELSE S

ContentNode_reset(S, n) == BaseReset([S EXCEPT !.text[n] = Plain(<<>>)], n)

RepeatGroup_reset(S, g) ==
    [BaseReset(S, g) EXCEPT !.currentLoop[g] = [def |-> TRUE, n |-> 0]]

Reset(S, o) ==
    LET S1 == CASE Obj(o).kind = "Edge" -> CannoliEdge_reset(S, o)
                [] Obj(o).kind = "Node" /\ Obj(o).type = "Content" -> ContentNode_reset(S, o)
                [] Obj(o).kind = "Group" /\ GroupType(o) = "Repeat" -> RepeatGroup_reset(S, o)
                [] OTHER -> BaseReset(S, o)
        c1 == IF Obj(o).kind = "Edge" THEN S.content[o] ELSE Null
        c2 == IF Obj(o).kind = "Edge" THEN S1.content[o] ELSE Null
    IN  Ret(Log(S1, Entry("reset", o, S.status[o], S1.status[o], TRUE, c1, c2)), <<>>)

-----------------------------------------------------------------------------
(* loadOutgoingEdges *)

\* CannoliNode.getListArrayFromContent: the elements of a JSON array (a
\* string as it is, anything else by JSON.stringify), else the lines that
\* start with "- " or with a number and ". ", without that start.
getListArrayFromContent(c) ==
    CASE c.k = "json" -> c.xs
      [] c.k = "md" ->
            LET keep == SelectSeq([i \in 1..Len(c.xs) |-> i],
                                  LAMBDA i : c.pre[i] \in {"- ", "1. "})
            IN  [j \in 1..Len(keep) |-> c.xs[keep[j]]]
      [] OTHER -> <<>>

\* The loop over the outgoing edges; itemIndex counts from 1 here.
RECURSIVE LoadEach(_, _, _, _, _)
LoadEach(edges, c, r, listItems, itemIndex) ==
    IF edges = <<>> THEN <<>>
    ELSE LET e == Head(edges)
             rest == Tail(edges)
         IN  IF Obj(e).type = "Item"
             THEN IF itemIndex > Len(listItems) \/ listItems[itemIndex] = ""
                  THEN <<MkOp("reject", e)>>
                       \o LoadEach(rest, c, r, listItems, itemIndex)
                  ELSE <<LoadOp(e, Str(listItems[itemIndex]), r)>>
                       \o LoadEach(rest, c, r, listItems, itemIndex + 1)
             ELSE IF Obj(e).type # "ChatResponse"
                  THEN <<LoadOp(e, c, r)>> \o LoadEach(rest, c, r, listItems, itemIndex)
                  ELSE LoadEach(rest, c, r, listItems, itemIndex)

CannoliNode_loadOutgoingEdges(n, c, r) ==
    LoadEach(OutgoingOf(n), c, r, getListArrayFromContent(c), 1)

\* Rejecting every choice edge, the selected one included.
RejectsSelected(n, choice) ==
    LET es == SelectSeq(OutgoingOf(n), LAMBDA e : Obj(e).type = "Choice")
    IN  [i \in 1..Len(es) |-> MkOp("reject", es[i])]

ChooseNode_rejectUnselectedOptions(n, choice) ==
    LET es == SelectSeq(OutgoingOf(n),
                        LAMBDA e : Obj(e).type = "Choice" /\ Obj(e).text # choice)
    IN  [i \in 1..Len(es) |-> MkOp("reject", es[i])]

\* args: the arguments of the function call in the last message (Null when
\* there are none).
ChooseNode_loadOutgoingEdges(n, args, r) ==
    IF ~Truthy(args) THEN <<MkOp("error", n)>>
    ELSE IF args.k # "args" THEN <<MkOp("throw", n)>>
    ELSE ChooseNode_rejectUnselectedOptions(n, args.xs[1])
         \o CannoliNode_loadOutgoingEdges(n, args, r)

-----------------------------------------------------------------------------
(* execute *)

\* The entry of an execute() notes whether no single-id dependency of the
\* object is Rejected at that moment and, for an edge, the status of its
\* source and the groups it crosses out of that are not Complete.
CountExecute(S, o) ==
    Log([S EXCEPT !.execs[o] = @ + 1],
        [Entry("execute", o, S.status[o], S.status[o],
               \A i \in 1..Len(Dependencies(o)) :
                   Dependencies(o)[i].arr
                   \/ S.status[Dependencies(o)[i].ids[1]] # "Rejected",
               Null, Null)
         EXCEPT !.src = IF Obj(o).kind = "Edge" THEN S.status[Obj(o).source] ELSE "",
                !.open = {g \in Range(crossingOutGroups(o)) : S.status[g] # "Complete"}])

CannoliEdge_execute(S, e) == Ret(S, <<MkOp("completed", e)>>)

\* CannoliObject.execute as a group inherits it: the group starts executing
\* and waits for its members.
CannoliGroup_execute(S, g) == Ret(S, <<MkOp("executing", g)>>)

FloatingNode_execute(S, n) == Ret(S, <<MkOp("completed", n)>>)

\* getAllAvailableProvideEdges: the incoming edges of the enclosing groups
\* and of the node, without the logging, write and config edges.
getAllAvailableProvideEdges(n) ==
    SelectSeq(Flatten([i \in 1..Len(Obj(n).groups) |-> incomingEdges(Obj(n).groups[i])])
              \o incomingEdges(n),
              LAMBDA e : Obj(e).type \notin {"Logging", "Write", "Config"})

\* What a call of getVariableValues leaves behind: every reflexive edge it
\* passes that is neither Complete nor Rejected has the content "".
readVariables(S, n, includeGroupEdges) ==
    LET read == {e \in Range(getAllAvailableProvideEdges(n)) :
                    includeGroupEdges \/ e \in Range(incomingEdges(n))}
    IN  [S EXCEPT !.content =
            [e \in DOMAIN @ |->
                IF /\ e \in read /\ Obj(e).isReflexive
                   /\ S.status[e] \notin {"Complete", "Rejected"}
                THEN Plain(<<>>) ELSE @[e]]]

\* CallNode.execute up to its first await, which is past the read of the
\* variables in processReferences.
CallNode_execute(S, n) ==
    Ret([readVariables(S, n, TRUE) EXCEPT !.inflight[n] = @ + 1],
        <<MkOp("executing", n)>>)

ContentNode_getWriteOrLoggingContent(S, n) ==
    LET inc == incomingEdges(n)
        logging == SelectSeq(inc, LAMBDA e : Obj(e).type = "Logging")
        filtered == SelectSeq(inc, LAMBDA e :
                        /\ \/ Obj(e).type \in {"Write", "Logging", "ChatResponse"}
                           \/ Obj(e).text = ""
                        /\ S.status[e] = "Complete")
    IN  IF Len(logging) > 1
        THEN Plain(Flatten([i \in 1..Len(logging) |->
                               IF S.content[logging[i]].k # "null"
                               THEN S.content[logging[i]].xs ELSE <<>>]))
        ELSE IF filtered = <<>> THEN Null
        ELSE IF S.content[filtered[1]].k # "null" THEN S.content[filtered[1]]
        ELSE Null

\* The content of the first variable getVariableValues(false) returns: the
\* first named incoming edge that is Complete and loaded.
FirstVariableContent(S, n) ==
    LET named == SelectSeq(incomingEdges(n), LAMBDA e :
                     /\ Obj(e).text # ""
                     /\ Obj(e).type \notin {"Logging", "Write", "Config"}
                     /\ S.status[e] = "Complete"
                     /\ S.content[e].k # "null")
    IN  IF named = <<>> THEN Plain(<<>>) ELSE S.content[named[1]]

\* ContentNode.execute: with content at hand it runs to its end at once;
\* otherwise it awaits processReferences.
ContentNode_execute(S, n) ==
    LET c0 == ContentNode_getWriteOrLoggingContent(S, n)
        c1 == IF ~Truthy(c0) THEN FirstVariableContent(S, n) ELSE c0
        S1 == IF ~Truthy(c0) THEN readVariables(S, n, FALSE) ELSE S
    IN  IF Truthy(c1)
        THEN Ret([S1 EXCEPT !.text[n] = c1],
                 <<MkOp("executing", n)>>
                 \o CannoliNode_loadOutgoingEdges(n, c1, FALSE)
                 \o <<MkOp("completed", n)>>)
        ELSE Ret([readVariables(S1, n, TRUE) EXCEPT !.inflight[n] = @ + 1],
                 <<MkOp("executing", n)>>)

\* HttpNode.execute up to its first await.
HttpNode_execute(S, n) ==
    Ret([(IF Obj(n).type = "Http" THEN readVariables(S, n, TRUE) ELSE S)
            EXCEPT !.inflight[n] = @ + 1],
        <<MkOp("executing", n)>>)

Execute(S, o) ==
    LET S1 == CountExecute(S, o)
    IN  CASE Obj(o).kind = "Edge" -> CannoliEdge_execute(S1, o)
          [] Obj(o).kind = "Group" -> CannoliGroup_execute(S1, o)
          [] Obj(o).type = "Floating" -> FloatingNode_execute(S1, o)
          [] Obj(o).type = "Content" -> ContentNode_execute(S1, o)
          [] Obj(o).type \in {"Http", "Hook"} -> HttpNode_execute(S1, o)
          [] OTHER -> CallNode_execute(S1, o)

-----------------------------------------------------------------------------
(* membersFinished *)

LoopsOn(S, g) == S.currentLoop[g].def /\ S.currentLoop[g].n < maxLoops(g)

\* resetMembers without the loop over the member's outgoing edges.
ResetsMembersOnly(g) ==
    [i \in 1..Len(Members(g)) |-> MkOp("reset", Members(g)[i])]

RepeatGroup_resetMembers(g) ==
    Flatten([i \in 1..Len(Members(g)) |->
                <<MkOp("reset", Members(g)[i])>>
                \o [j \in 1..Len(OutgoingOf(Members(g)[i])) |->
                       MkOp("reset", OutgoingOf(Members(g)[i])[j])]])

RepeatGroup_membersFinished(S, g) ==
    IF LoopsOn(S, g)
    THEN Ret([S EXCEPT !.currentLoop[g].n = @ + 1], <<MkOp("resetMembers", g)>>)
    ELSE Ret(S, <<MkOp("completed", g)>>)

\* The call of resetMembers and its return, as the log shows them.
ResetMembers(S, g) ==
    Ret(Log(S, Entry("resetMembers", g, S.status[g], S.status[g], TRUE, Null, Null)),
        RepeatGroup_resetMembers(g) \o <<MkOp("return", g)>>)

Returned(S, o) ==
    Ret(Log(S, Entry("return", o, S.status[o], S.status[o], TRUE, Null, Null)), <<>>)

\* The iteration group goes round or completes by the rule of the repeat
\* group.
ForEachGroup_membersFinished(S, g) == RepeatGroup_membersFinished(S, g)

\* CannoliGroup.membersFinished has an empty body.
CannoliGroup_membersFinished(S, g) == Ret(S, <<>>)

MembersFinished(S, g) ==
    LET ok == \A m \in Range(Members(g)) : S.status[m] \in Terminal
        S1 == Log([S EXCEPT !.passes[g] = @ + 1],
                  Entry("membersFinished", g, S.status[g], S.status[g], ok, Null, Null))
    IN  CASE GroupType(g) = "Repeat" -> RepeatGroup_membersFinished(S1, g)
          [] GroupType(g) = "ForEach" -> ForEachGroup_membersFinished(S1, g)
          [] OTHER -> CannoliGroup_membersFinished(S1, g)

-----------------------------------------------------------------------------
(* dependencyCompleted / dependencyRejected *)

ExecuteIf(S, o, cond) == Ret(S, IF cond THEN <<MkOp("execute", o)>> ELSE <<>>)

\* The handler without its status guard.
UnguardedEdge(S, e) == ExecuteIf(S, e, DepsComplete(S, e))

\* The handler of the logging edge looking at its source only.
SourceOnly(S, e) == ExecuteIf(S, e, S.status[Obj(e).source] = "Complete")

CannoliEdge_dependencyCompleted(S, e) ==
    ExecuteIf(S, e, DepsComplete(S, e) /\ S.status[e] = "Pending")

LoggingEdge_dependencyCompleted(S, e) ==
    ExecuteIf(S, e,
        /\ S.status[Obj(e).source] = "Complete"
        /\ \A g \in Range(crossingOutGroups(e)) :
              GroupType(g) # "ForEach" \/ S.status[g] = "Complete")

CannoliNode_dependencyCompleted(S, n) ==
    ExecuteIf(S, n, DepsComplete(S, n) /\ S.status[n] = "Pending")

\* The content node with the handler it inherits.
InheritedHandler(S, n, dependency) ==
    ExecuteIf(S, n, DepsComplete(S, n) /\ S.status[n] = "Pending")

ContentNode_dependencyCompleted(S, n, dependency) ==
    IF \/ /\ Obj(dependency).kind = "Edge" /\ Obj(dependency).type = "Logging"
          /\ ~\E g \in Range(crossingOutGroups(dependency)) : GroupType(g) = "ForEach"
       \/ Obj(dependency).kind = "Edge" /\ Obj(dependency).type = "ChatResponse"
    THEN ExecuteIf(S, n, TRUE)
    ELSE ExecuteIf(S, n, DepsComplete(S, n) /\ S.status[n] = "Pending")

FloatingNode_dependencyCompleted(S, n) == Ret(S, <<>>)

FloatingNode_dependencyRejected(S, n) == Ret(S, <<>>)

CannoliGroup_dependencyCompleted(S, g) ==
    CASE S.status[g] = "Pending" ->
            ExecuteIf(S, g, allEdgeDependenciesComplete(Dependencies(g), S.status, KindOf))
      [] S.status[g] = "Executing" ->
            Ret(S, IF allMembersCompleteOrRejected(Members(g), S.status)
                   THEN <<MkOp("membersFinished", g)>> ELSE <<>>)
      [] OTHER -> Ret(S, <<>>)

DependencyCompleted(S, o, dependency) ==
    CASE Obj(o).kind = "Edge" /\ Obj(o).type = "Logging" -> LoggingEdge_dependencyCompleted(S, o)
      [] Obj(o).kind = "Edge" -> CannoliEdge_dependencyCompleted(S, o)
      [] Obj(o).kind = "Group" -> CannoliGroup_dependencyCompleted(S, o)
      [] Obj(o).type = "Floating" -> FloatingNode_dependencyCompleted(S, o)
      [] Obj(o).type \in {"Content", "Http", "Hook"} ->
            ContentNode_dependencyCompleted(S, o, dependency)
      [] OTHER -> CannoliNode_dependencyCompleted(S, o)

\* CannoliObject.dependencyRejected, which only the floating node overrides.
DependencyRejected(S, o, dependency) ==
    IF Obj(o).kind = "Node" /\ Obj(o).type = "Floating"
    THEN FloatingNode_dependencyRejected(S, o)
    ELSE ExecuteIf(S, o, S.status[o] = "Pending" /\ DepsComplete(S, o))

\* The listener: a Complete update goes to dependencyCompleted, a Rejected
\* one to dependencyRejected, any other is ignored.
DependencyUpdated(S, o, dependency, a) ==
    LET S1 == Log(S, [Entry("update", o, S.status[o], S.status[o],
                            a = "Complete", Null, Null)
                      EXCEPT !.dep = dependency, !.ready = DepsComplete(S, o)])
    IN  CASE a = "Complete" -> DependencyCompleted(S1, o, dependency)
          [] a = "Rejected" -> DependencyRejected(S1, o, dependency)
          [] OTHER -> Ret(S1, <<>>)

\* The run coordinator's readiness check of an object without dependencies.
Check(S, o) == ExecuteIf(S, o, S.status[o] = "Pending" /\ DepsComplete(S, o))

\* A collaborator handed the execute() of n an error value.
ErrorValue(S, n) ==
    Ret(Log(S, Entry("errorValue", n, S.status[n], S.status[n], FALSE, Null, Null)),
        <<>>)

\* createLLMRequest returns to n a request with messages (r) or with none.
CreateLLMRequest(S, n, r) ==
    Ret(Log(S, Entry("request", n, S.status[n], S.status[n], r, Null, Null)), <<>>)

\* The model-calling collaborator is called for n.
CallLLM(S, n) ==
    Ret(Log(S, Entry("callLLM", n, S.status[n], S.status[n], TRUE, Null, Null)), <<>>)

-----------------------------------------------------------------------------
(* The cascade *)

Apply(S, call) ==
    CASE call.op = "notify" -> DependencyUpdated(S, call.o, call.d, call.a)
      [] call.op = "check" -> Check(S, call.o)
      [] call.op = "execute" -> Execute(S, call.o)
      [] call.op = "executing" -> executing(S, call.o)
      [] call.op = "completed" -> completed(S, call.o)
      [] call.op = "reject" -> reject(S, call.o)
      [] call.op = "error" -> error(S, call.o)
      [] call.op = "load" -> Load(S, call.o, call.c, call.r)
      [] call.op = "throw" -> Throw(S, call.o)
      [] call.op = "resetMembers" -> ResetMembers(S, call.o)
      [] call.op = "return" -> Returned(S, call.o)
      [] call.op = "errorValue" -> ErrorValue(S, call.o)
      [] call.op = "callLLM" -> CallLLM(S, call.o)
      [] call.op = "request" -> CreateLLMRequest(S, call.o, call.r)
      [] call.op = "reset" -> Reset(S, call.o)
      [] call.op = "membersFinished" -> MembersFinished(S, call.o)
      [] OTHER -> Ret(S, <<>>)

\* stack: frames of calls still to make, innermost first.  A throw abandons
\* the rest of its frame (the async execute() it unwinds ends there).
RECURSIVE Drain(_, _)
Drain(S, stack) ==
    IF stack = <<>> THEN S
    ELSE IF Head(stack) = <<>> THEN Drain(S, Tail(stack))
    ELSE LET res == Apply(S, Head(Head(stack)))
         IN  IF res.throw THEN Drain(res.S, Tail(stack))
             ELSE Drain(res.S, <<res.push, Tail(Head(stack))>> \o Tail(stack))

-----------------------------------------------------------------------------
(* The run *)

Nodes == IdsOfKind("Node")
Edges == IdsOfKind("Edge")
Groups == IdsOfKind("Group")

SeqsUpTo(X, n) == UNION {[1..k -> X] : k \in 0..n}

JsonItems == {<<"str", "a">>, <<"str", "">>, <<"num", "7">>}
MdLines == {<<"- ", "a">>, <<"- ", "">>, <<"1. ", "b">>, <<"", "c">>}

\* The texts a list-producing node may hold.
ListTexts ==
    {[k |-> "json", pre |-> [i \in 1..Len(it) |-> it[i][1]],
      xs |-> [i \in 1..Len(it) |-> it[i][2]]] : it \in SeqsUpTo(JsonItems, MaxItems)}
    \cup {[k |-> "md", pre |-> [i \in 1..Len(ls) |-> ls[i][1]],
           xs |-> [i \in 1..Len(ls) |-> ls[i][2]]] :
             ls \in SeqsUpTo(MdLines, MaxItems) \ {<<>>}}
    \cup {Plain(<<"t">>)}

Undefined == [def |-> FALSE, n |-> 0]

\* The state after construction.
Init ==
    /\ scn \in Scenarios
    /\ memberDeps \in (IF scn = "repeat" THEN BOOLEAN ELSE {FALSE})
    /\ \E parsed \in {parse(CanvasOf(scn), memberDeps, FALSE)} :
          /\ graph = ForEachGroup(parsed.graph)
          /\ order = parsed.order
    /\ started = FALSE
    /\ status = [id \in Ids |-> IF Obj(id).type = "Floating" THEN "Complete" ELSE "Pending"]
    /\ content = [e \in Edges |-> Null]
    /\ text \in [Nodes -> IF scn = "list" THEN ListTexts ELSE {Plain(<<"t">>)}]
    /\ \A n \in Nodes : Obj(n).type # "Content" => text[n] = Plain(<<"t">>)
    /\ currentLoop = [g \in Groups |-> Undefined]
    /\ inflight = [n \in Nodes |-> 0]
    /\ stream = [n \in Nodes |-> [on |-> FALSE, xs |-> <<>>]]
    /\ execs = [id \in Ids |-> 0]
    /\ passes = [g \in Groups |-> 0]
    /\ steps = <<>>
    /\ fin = <<>>
    /\ fout = <<>>

Cur ==
    [status |-> status, content |-> content, text |-> text,
     currentLoop |-> currentLoop, inflight |-> inflight, stream |-> stream,
     execs |-> execs,
     passes |-> passes, steps |-> <<>>]

Commit(S) ==
    /\ status' = S.status
    /\ content' = S.content
    /\ text' = S.text
    /\ currentLoop' = S.currentLoop
    /\ inflight' = S.inflight
    /\ stream' = S.stream
    /\ execs' = S.execs
    /\ passes' = S.passes
    /\ steps' = S.steps
    /\ UNCHANGED <<scn, memberDeps, graph, order, fin, fout>>

Resume(n) == [Cur EXCEPT !.inflight[n] = @ - 1]

\* The initial kick: a readiness check of every object with no dependency.
Start ==
    /\ ~started
    /\ started' = TRUE
    /\ LET roots == SelectSeq(IdsInOrder, LAMBDA o : Dependencies(o) = <<>>)
       IN  Commit(Drain(Cur, <<[i \in 1..Len(roots) |-> MkOp("check", roots[i])]>>))

chatResponseEdges(n) ==
    SelectSeq(OutgoingOf(n), LAMBDA e : Obj(e).type = "ChatResponse")

EndOfStream == Plain(<<"END OF STREAM">>)

\* CallNode.execute calling the model whatever the request holds.
CallsWithoutMessages(n, out) ==
    <<MkOp("callLLM", n)>>
    \o CannoliNode_loadOutgoingEdges(n, Plain(<<"msg">>), TRUE)
    \o <<MkOp("completed", n)>>

\* CallNode.execute from the return of createLLMRequest on, when what the
\* collaborator returns is not a stream: the request has no messages; or
\* the answer is an error value, nothing, or a message (for a node with
\* chat-response edges, a string).
CallNode_resume(n, out) ==
    IF out = "nomessages" THEN <<MkOp("error", n)>>
    ELSE <<MkOp("callLLM", n)>>
         \o (CASE out = "error" -> <<MkOp("errorValue", n), MkOp("error", n)>>
               [] out = "empty" /\ chatResponseEdges(n) # <<>> -> <<MkOp("error", n)>>
               [] OTHER ->
                    CannoliNode_loadOutgoingEdges(
                        n, IF out = "empty" THEN Plain(<<>>) ELSE Plain(<<"msg">>), TRUE)
                    \o <<MkOp("completed", n)>>)

\* The rest of CallNode.execute: no messages to send, or the model answered
\* with a message or with an error.
FinishCall(n, out) ==
    /\ started
    /\ Obj(n).type = "Call"
    /\ inflight[n] > 0
    /\ ~stream[n].on
    /\ UNCHANGED started
    /\ Commit(Drain(Resume(n),
          <<<<RequestOp(n, out # "nomessages")>> \o CallNode_resume(n, out)>>))

\* callLLMStream returns a stream to a node with chat-response edges.
StartStream(n) ==
    /\ started
    /\ Obj(n).type = "Call"
    /\ chatResponseEdges(n) # <<>>
    /\ inflight[n] > 0
    /\ ~stream[n].on
    /\ UNCHANGED started
    /\ Commit(Drain([Cur EXCEPT !.stream[n] = [on |-> TRUE, xs |-> <<>>]],
                    <<<<RequestOp(n, TRUE), MkOp("callLLM", n)>>>>))

\* One turn of the loop over the stream: an empty part is passed over, any
\* other is loaded into every chat-response edge.
CallNode_part(n, part) ==
    IF part = "" THEN <<>>
    ELSE [i \in 1..Len(chatResponseEdges(n)) |->
             LoadOp(chatResponseEdges(n)[i], Plain(<<part>>), TRUE)]

Chunks == {"", "x", "y"}

StreamPart(n, part) ==
    /\ started
    /\ stream[n].on
    /\ Len(stream[n].xs) < MaxChunks
    /\ UNCHANGED started
    /\ Commit(Drain([Cur EXCEPT !.stream[n].xs = IF part = "" THEN @ ELSE Append(@, part)],
                    <<CallNode_part(n, part)>>))

\* The end marker loaded before the full message.
CallNode_endOfStream(n, messageContent) ==
    [i \in 1..Len(chatResponseEdges(n)) |->
        LoadOp(chatResponseEdges(n)[i], EndOfStream, TRUE)]
    \o CannoliNode_loadOutgoingEdges(n, messageContent, TRUE)
    \o <<MkOp("completed", n)>>

\* The stream ends.
EndStream(n) ==
    /\ started
    /\ stream[n].on
    /\ UNCHANGED started
    /\ Commit(Drain([Resume(n) EXCEPT !.stream[n].on = FALSE],
                    <<CallNode_endOfStream(n, Plain(stream[n].xs))>>))

\* The rest of CallNode.execute in a choice node: the answer names a choice,
\* or carries no function-call arguments or unparsable ones, or is an error.
FinishChoose(n, out) ==
    /\ started
    /\ Obj(n).type = "Choose"
    /\ inflight[n] > 0
    /\ UNCHANGED started
    /\ Commit(Drain(Resume(n),
          <<<<RequestOp(n, out # "nomessages")>> \o
            IF out = "nomessages" THEN <<MkOp("error", n)>>
            ELSE IF out = "error"
            THEN <<MkOp("callLLM", n), MkOp("errorValue", n), MkOp("error", n)>>
            ELSE <<MkOp("callLLM", n)>> \o ChooseNode_loadOutgoingEdges(
                     n, CASE out = "noargs" -> Null
                          [] out = "badjson" -> BadArgs
                          [] OTHER -> Args(out), TRUE)
                 \o <<MkOp("completed", n)>>>>))

\* The rest of ContentNode.execute after processReferences.
FinishContent(n) ==
    /\ started
    /\ Obj(n).type = "Content"
    /\ inflight[n] > 0
    /\ UNCHANGED started
    /\ Commit(Drain(Resume(n),
          <<CannoliNode_loadOutgoingEdges(n, text[n], FALSE)
            \o <<MkOp("completed", n)>>>>))

\* What waitForHookResponse returns when the receiver fails.
NoHookResponse == Plain(<<"Could not get hook response.">>)

\* The rest of HttpNode.execute: the hook could not be created (a hook node
\* only), the content is no request, the request failed, the receiver
\* failed while the node waited for the hook response (a hook node only),
\* or all went well.
HttpNode_resume(n, out) ==
    CASE out = "hookCreation" -> <<MkOp("errorValue", n), MkOp("error", n)>>
      [] out = "noRequest" -> <<MkOp("error", n)>>
      [] out = "request" -> <<MkOp("errorValue", n), MkOp("error", n)>>
      [] out = "hookResponse" ->
            <<MkOp("errorValue", n)>>
            \o CannoliNode_loadOutgoingEdges(n, NoHookResponse, FALSE)
            \o <<MkOp("completed", n)>>
      [] OTHER ->
            CannoliNode_loadOutgoingEdges(n, Plain(<<"resp">>), FALSE)
            \o <<MkOp("completed", n)>>

FinishHttp(n, out) ==
    /\ started
    /\ Obj(n).type \in {"Http", "Hook"}
    /\ out \in {"hookCreation", "hookResponse"} => Obj(n).type = "Hook"
    /\ inflight[n] > 0
    /\ UNCHANGED started
    /\ Commit(Drain(Resume(n), <<HttpNode_resume(n, out)>>))

HttpOutcomes == {"ok", "hookCreation", "noRequest", "request", "hookResponse"}

CallOutcomes == {"ok", "empty", "error", "nomessages"}
ChooseOutcomes == {"A", "B", "Z", "noargs", "badjson", "error", "nomessages"}

Next ==
    \/ Start
    \/ \E n \in Nodes, out \in CallOutcomes : FinishCall(n, out)
    \/ \E n \in Nodes, out \in ChooseOutcomes : FinishChoose(n, out)
    \/ \E n \in Nodes : FinishContent(n)
    \/ \E n \in Nodes, out \in HttpOutcomes : FinishHttp(n, out)
    \/ \E n \in Nodes : StartStream(n)
    \/ \E n \in Nodes, part \in Chunks : StreamPart(n, part)
    \/ \E n \in Nodes : EndStream(n)

Spec == Init /\ [][Next]_vars

\* RepeatGroup.reset called on a group before the kick: the one place that
\* gives currentLoop a value.
ResetGroup(g) ==
    /\ ~started
    /\ GroupType(g) = "Repeat"
    /\ ~currentLoop[g].def
    /\ UNCHANGED started
    /\ Commit(Drain(Cur, <<<<MkOp("reset", g)>>>>))

NextReset ==
    \/ Next
    \/ \E g \in Groups : ResetGroup(g)

\* The runs in which a repeat group may have been reset first.
SpecReset == Init /\ [][NextReset]_vars

\* The runs in which every collaborator answers in the one expected way:
\* the model with a message (the choice "A"), the request with a response.
NextOrder ==
    \/ Start
    \/ \E n \in Nodes : FinishCall(n, "ok")
    \/ \E n \in Nodes : FinishChoose(n, "A")
    \/ \E n \in Nodes : FinishContent(n)
    \/ \E n \in Nodes : FinishHttp(n, "ok")

SpecOrder == Init /\ [][NextOrder]_vars

\* A floating node is handed an update of object d with status a.
Deliver(n, d, a) ==
    /\ started
    /\ Obj(n).type = "Floating"
    /\ d # n
    /\ UNCHANGED started
    /\ Commit(Drain(Cur, <<<<NotifyOp(n, d, a)>>>>))

NextFloat ==
    \/ NextReset
    \/ \E n \in Nodes, d \in Ids, a \in {"Complete", "Rejected"} : Deliver(n, d, a)

\* The runs of SpecReset, with updates reaching the floating nodes.
SpecFloat == Init /\ [][NextFloat]_vars

\* load called on a logging edge, with a request or without.
LoadLogging(e, r) ==
    /\ Obj(e).type = "Logging"
    /\ Len(content[e].xs) < 2 * MaxLogs - 1
    /\ UNCHANGED started
    /\ Commit(Drain(Cur, <<<<LoadOp(e, Null, r)>>>>))

\* reset called on a logging edge.
ResetLogging(e) ==
    /\ Obj(e).type = "Logging"
    /\ UNCHANGED started
    /\ Commit(Drain(Cur, <<<<MkOp("reset", e)>>>>))

NextLog ==
    \/ Next
    \/ \E e \in Edges, r \in BOOLEAN : LoadLogging(e, r)
    \/ \E e \in Edges : ResetLogging(e)

\* The runs in which a logging edge is loaded and reset any number of times.
SpecLog == Init /\ [][NextLog]_vars

-----------------------------------------------------------------------------
(* The functions on their own: the dependency test of a group, and the     *)
(* typing of a group.  fin is the input, fout the result once computed.    *)

NoRun ==
    /\ scn = "none" /\ memberDeps = FALSE /\ graph = <<>> /\ order = <<>>
    /\ started = FALSE /\ status = <<>> /\ content = <<>> /\ text = <<>>
    /\ currentLoop = <<>> /\ inflight = <<>> /\ stream = <<>> /\ execs = <<>>
    /\ passes = <<>> /\ steps = <<>>

Statuses == {"Pending", "Executing", "Complete", "Rejected"}

DepObjs == 1..MaxDeps
DepEntries ==
    {Single(o) : o \in DepObjs}
    \cup {[arr |-> TRUE, ids |-> q] : q \in SeqsUpTo(DepObjs, MaxDeps) \ {<<>>}}

InitDep ==
    /\ NoRun
    /\ fin \in [dependencies : {<<>>} \cup {<<en>> : en \in DepEntries},
                statusOf : [DepObjs -> Statuses],
                kindOf : [DepObjs -> {"Edge", "Node"}]]
    /\ fout = [done |-> FALSE, res |-> FALSE]

\* The group evaluates allEdgeDependenciesComplete on its dependencies.
Evaluate ==
    /\ ~fout.done
    /\ fout' = [done |-> TRUE,
                res |-> allEdgeDependenciesComplete(
                            fin.dependencies, fin.statusOf, fin.kindOf)]
    /\ UNCHANGED <<fin, scn, memberDeps, graph, order, started, status, content,
                   text, currentLoop, inflight, stream, execs, passes, steps>>

NextDep == Evaluate

SpecDep == InitDep /\ [][NextDep]_vars

Labels ==
    SeqsUpTo({"3", "0", "-", "<", "a", " "}, MaxLabelLen) \cup {<<"a", "b", "c">>}

InitBuild ==
    /\ NoRun
    /\ fin \in [label : Labels,
                color : {"", "2", "5"},
                memberTypes : {<<>>},
                members : {<<>>, <<"n1", "n2">>},
                incomingEdges : {<<>>, <<"e1">>},
                outgoingEdges : {<<>>, <<"e2">>},
                groups : {<<>>, <<"G">>}]
    /\ fout = [done |-> FALSE, indicated |-> "", res |-> NoGroup("null")]

\* Pass 7 of the factory on one group whose members are nodes of type t.
Type(t) ==
    /\ ~fout.done
    /\ fout' = [done |-> TRUE,
                indicated |-> getIndicatedType(
                    fin.label, fin.color, [i \in 1..Len(fin.members) |-> t]),
                res |-> createTyped(
                    [fin EXCEPT !.memberTypes =
                        [i \in 1..Len(fin.members) |-> t]])]
    /\ fin' = [fin EXCEPT !.memberTypes = [i \in 1..Len(fin.members) |-> t]]
    /\ UNCHANGED <<scn, memberDeps, graph, order, started, status, content,
                   text, currentLoop, inflight, stream, execs, passes, steps>>

NextBuild == \E t \in {"Call", "NonLogic"} : Type(t)

SpecBuild == InitBuild /\ [][NextBuild]_vars

\* The diagrams the factory is run on: a group G around a node w and a
\* group H, H around a node v and a node without edges; a node s outside
\* with an edge into G; edges from w back to G and from v back to H that may
\* be reflexive; a choice node with one edge of type ct; a group N around a
\* group M that is empty; an empty group K inside G.
ParseLabels == {<<"2">>, <<"a">>, <<"<">>, <<"<", "3">>}

ParseCanvas(p) ==
    << GroupRec("G", p.lo, <<>>), GroupRec("H", p.li, <<"G">>),
       NodeRec("s", "Call", <<>>), NodeRec("w", "Call", <<"G">>),
       NodeRec("v", "Call", <<"H", "G">>), NodeRec("f", "Content", <<"H", "G">>),
       NodeRec("ch", "Choose", <<>>),
       GroupRec("N", <<"a">>, <<>>), GroupRec("M", p.li, <<"N">>),
       GroupRec("K", <<"a">>, <<"G">>),
       EdgeRec("e1", "Blank", "", "s", "G", FALSE),
       EdgeRec("e2", "Blank", "", "w", "G", p.r1),
       EdgeRec("e3", "Blank", "", "w", "H", FALSE),
       EdgeRec("e4", "Blank", "", "v", "H", p.r2),
       EdgeRec("e5", p.ct, "A", "ch", "s", FALSE) >>

InitParse ==
    /\ NoRun
    /\ fin \in [lo : ParseLabels, li : ParseLabels, r1 : BOOLEAN, r2 : BOOLEAN,
                ct : {"Choice", "Blank"}, validates : BOOLEAN]
    /\ fout = [stage |-> "canvas", pass5 |-> <<>>, res |-> NoGraph]

\* Passes 4 and 5 of parse.
GroupMembership ==
    /\ fout.stage = "canvas"
    /\ fout' = [fout EXCEPT !.stage = "members",
                    !.pass5 = setAllGroupMembers(createNodesAndGroups(ParseCanvas(fin)))]
    /\ UNCHANGED <<fin, scn, memberDeps, graph, order, started, status, content,
                   text, currentLoop, inflight, stream, execs, passes, steps>>

\* The remaining passes: parse returns.
Return ==
    /\ fout.stage = "members"
    /\ fout' = [fout EXCEPT !.stage = "parsed",
                    !.res = parse(ParseCanvas(fin), TRUE, fin.validates)]
    /\ UNCHANGED <<fin, scn, memberDeps, graph, order, started, status, content,
                   text, currentLoop, inflight, stream, execs, passes, steps>>

NextParse == GroupMembership \/ Return

SpecParse == InitParse /\ [][NextParse]_vars

-----------------------------------------------------------------------------
(* The configuration of a call node.  fin is the node: own, its incoming   *)
(* config edges, and groups, the incoming config edges of each enclosing   *)
(* group, innermost first.  A config edge is [text, content]; a content is *)
(* a string [k = "str", v], an object [k = "obj", kv] of key/value pairs   *)
(* in insertion order, null or undefined.                                  *)

\* The keys of the collaborator's sample configuration.
sampleConfig == {"temperature", "model"}

keyTypeMap == [temperature |-> "number", model |-> "string"]

ConfigValues == {<<"1">>, <<"2">>, <<"x">>}

\* parseFloat on texts without decimal point or exponent, where it reads
\* what parseInt reads.
parseFloat(str) == parseInt(str)

Unset == [t |-> "unset"]

convertValue(key, value) ==
    IF keyTypeMap[key] = "number"
    THEN [t |-> "number", nan |-> parseFloat(value).nan, n |-> parseFloat(value).n]
    ELSE [t |-> "string", v |-> value]

isValidKey(key) == key \in sampleConfig

\* rc: [cfg, rejected], the runConfig and whether this.error was called.
NoConfig == [cfg |-> [key \in sampleConfig |-> Unset], rejected |-> FALSE]

RECURSIVE SetEach(_, _)
SetEach(rc, kv) ==
    IF kv = <<>> THEN rc
    ELSE SetEach(IF isValidKey(kv[1][1])
                 THEN [rc EXCEPT !.cfg[kv[1][1]] = convertValue(kv[1][1], kv[1][2])]
                 ELSE [rc EXCEPT !.rejected = TRUE],
                 Tail(kv))

updateConfigWithValue(rc, c, setting) ==
    CASE c.k = "str" ->
            IF setting # "" /\ isValidKey(setting)
            THEN [rc EXCEPT !.cfg[setting] = convertValue(setting, c.v)]
            ELSE [rc EXCEPT !.rejected = TRUE]
      [] c.k = "obj" -> SetEach(rc, c.kv)
      [] OTHER -> rc

\* typeof null is "object": a null content goes on to updateConfigWithValue.
processSingleEdge(rc, edgeObject) ==
    IF edgeObject.content.k \in {"str", "obj", "null"}
    THEN updateConfigWithValue(rc, edgeObject.content, edgeObject.text)
    ELSE [rc EXCEPT !.rejected = TRUE]

RECURSIVE processEdges(_, _)
processEdges(rc, edges) ==
    IF edges = <<>> THEN rc
    ELSE processEdges(processSingleEdge(rc, Head(edges)), Tail(edges))

\* The groups from the last of the chain, the outermost, to the first.
RECURSIVE processGroups(_, _, _)
processGroups(rc, groups, i) ==
    IF i = 0 THEN rc
    ELSE processGroups(processEdges(rc, groups[i]), groups, i - 1)

processNodes(rc, own) == processEdges(rc, own)

\* getConfig reading the node's own edges before those of its groups.
OwnEdgesFirst(node) ==
    processGroups(processNodes(NoConfig, node.own), node.groups, Len(node.groups))

getConfig(node) ==
    processNodes(processGroups(NoConfig, node.groups, Len(node.groups)), node.own)

ConfigEdges ==
    {[text |-> t, content |-> [k |-> "str", v |-> v]] :
        t \in sampleConfig \cup {"bogus"}, v \in ConfigValues}
    \cup {[text |-> "", content |-> [k |-> "obj", kv |-> kv]] :
            kv \in {<< <<"temperature", v>> >> : v \in ConfigValues}
                   \cup {<< <<"bogus", <<"1">> >> >>,
                          << <<"temperature", <<"1">> >>, <<"model", <<"2">> >> >>}}
    \cup {[text |-> "temperature", content |-> [k |-> "null"]],
           [text |-> "temperature", content |-> [k |-> "undefined"]]}

\* The config edges into one vertex: none or one.
EdgesInto == {<<>>} \cup {<<e>> : e \in ConfigEdges}

InitConfig ==
    /\ NoRun
    /\ fin \in [own : EdgesInto, groups : SeqsUpTo(EdgesInto, MaxGroups)]
    /\ fout = [done |-> FALSE, res |-> NoConfig]

GetConfig ==
    /\ ~fout.done
    /\ fout' = [done |-> TRUE, res |-> getConfig(fin)]
    /\ UNCHANGED <<fin, scn, memberDeps, graph, order, started, status, content,
                   text, currentLoop, inflight, stream, execs, passes, steps>>

NextConfig == GetConfig

SpecConfig == InitConfig /\ [][NextConfig]_vars

-----------------------------------------------------------------------------
(* The message-format converter edge.  A text is a sequence of tokens: a   *)
(* word, a blank, or the whole of one match of the role pattern.           *)

RoleOf == [sys |-> "system", usr |-> "user", ast |-> "assistant"]
RoleMarkers == DOMAIN RoleOf

\* String.prototype.trim.
RECURSIVE trim(_)
trim(str) ==
    IF str # <<>> /\ Head(str) = " " THEN trim(Tail(str))
    ELSE IF str # <<>> /\ str[Len(str)] = " " THEN trim(SubSeq(str, 1, Len(str) - 1))
    ELSE str

\* regex.exec(str) with lastIndex = from: the index (from 0) of the first
\* match at or after from, -1 for null.
RECURSIVE exec(_, _)
exec(str, from) ==
    IF from >= Len(str) THEN -1
    ELSE IF str[from + 1] \in RoleMarkers THEN from
    ELSE exec(str, from + 1)

substring(str, start, end) == SubSeq(str, start + 1, end)

\* The loop of stringToArray: [messages, lastIndex] when exec returns null.
RECURSIVE getRoles(_, _, _, _)
getRoles(str, regexLastIndex, messages, lastIndex) ==
    LET match == exec(str, regexLastIndex)
        start == match + 1
        nextMatch == exec(str, start)
        end == IF nextMatch # -1 THEN nextMatch ELSE Len(str)
    IN  IF match = -1 THEN [messages |-> messages, lastIndex |-> lastIndex]
        ELSE getRoles(str, start,
                      Append(messages, [role |-> RoleOf[str[match + 1]],
                                        content |-> trim(substring(str, start, end))]),
                      end)

stringToArray(str) ==
    LET found == getRoles(str, 0, <<>>, 0)
    IN  IF found.messages = <<>> THEN <<[role |-> "user", content |-> trim(str)]>>
        ELSE IF found.lastIndex < Len(str) - 1
        THEN Append(found.messages,
                    [role |-> "user",
                     content |-> trim(substring(str, found.lastIndex, Len(str)))])
        ELSE found.messages

ConverterTexts == SeqsUpTo({"a", "b", " ", "usr", "ast"}, MaxTokens)

InitConvert ==
    /\ NoRun
    /\ fin \in ConverterTexts
    /\ fout = [done |-> FALSE, messages |-> <<>>]

Convert ==
    /\ ~fout.done
    /\ fout' = [done |-> TRUE, messages |-> stringToArray(fin)]
    /\ UNCHANGED <<fin, scn, memberDeps, graph, order, started, status, content,
                   text, currentLoop, inflight, stream, execs, passes, steps>>

NextConvert == Convert

SpecConvert == InitConvert /\ [][NextConvert]_vars

-----------------------------------------------------------------------------
(* The variables of a node.  The available provide edges are records      *)
(* [text, content, isReflexive, status] in the order of                    *)
(* getAllAvailableProvideEdges; an edge's id is its place in that order    *)
(* and the run's own entries carry the id 0 (edgeId "").  A content is a   *)
(* string, "null" standing for null; edges carry no versions.              *)

NoContent == "null"

\* The assignment inside the loop of getVariableValues: a reflexive edge
\* that is neither Complete nor Rejected has its content set to "".
readEdge(e) ==
    IF e.status # "Complete" /\ e.isReflexive /\ e.status # "Rejected"
    THEN [e EXCEPT !.content = ""] ELSE e

\* The edges the loop of getVariableValues passes over (continue).
skipsEdge(e) ==
    \/ /\ e.status # "Complete"
       /\ ~(e.isReflexive /\ e.status # "Rejected")
       /\ (e.status # "Rejected" \/ ~e.isReflexive \/ e.content = NoContent)
    \/ readEdge(e).content = NoContent
    \/ e.text = ""

\* The names of the values in the order of their first appearance.
RECURSIVE groupedByName(_, _)
groupedByName(variableValues, names) ==
    IF variableValues = <<>> THEN names
    ELSE groupedByName(Tail(variableValues),
             IF \E i \in 1..Len(names) : names[i] = Head(variableValues).name
             THEN names ELSE Append(names, Head(variableValues).name))

\* The first loop over the values of one name: a value of the run ends
\* the loop, a reflexive edge with content ends it, an empty reflexive
\* edge is taken and the loop goes on.
RECURSIVE preferReflexive(_, _, _)
preferReflexive(variables, G, selected) ==
    IF variables = <<>> THEN [selected |-> selected, found |-> FALSE]
    ELSE LET variable == Head(variables)
         IN  IF variable.edgeId = 0
             THEN [selected |-> variable, found |-> FALSE]
             ELSE IF G[variable.edgeId].isReflexive
             THEN IF G[variable.edgeId].content # ""
                  THEN [selected |-> variable, found |-> TRUE]
                  ELSE preferReflexive(Tail(variables), G, variable)
             ELSE preferReflexive(Tail(variables), G, selected)

\* The second loop: the first value of an edge that is not reflexive.
firstNonReflexive(variables, G, selected) ==
    LET plain == SelectSeq(variables, LAMBDA v :
                     v.edgeId # 0 /\ ~G[v.edgeId].isReflexive)
    IN  IF plain = <<>> THEN selected ELSE plain[1]

resolveVariableConflicts(variableValues, G) ==
    LET names == groupedByName(variableValues, <<>>)
        pick(name) ==
            LET variables == SelectSeq(variableValues, LAMBDA v : v.name = name)
                first == preferReflexive(variables, G, variables[1])
            IN  IF ~first.found /\ first.selected.content = ""
                THEN firstNonReflexive(variables, G, first.selected)
                ELSE first.selected
    IN  [i \in 1..Len(names) |-> pick(names[i])]

\* getVariableValues(includeGroupEdges) over the available edges, all of
\* them incoming edges of the node: the values it returns and the edges
\* as it leaves them.
getVariableValues(availableEdges, currentNote, includeGroupEdges) ==
    LET G == [i \in 1..Len(availableEdges) |-> readEdge(availableEdges[i])]
        kept == SelectSeq([i \in 1..Len(availableEdges) |-> i],
                          LAMBDA i : ~skipsEdge(availableEdges[i]))
        fromEdges == [j \in 1..Len(kept) |->
                        [name |-> G[kept[j]].text, content |-> G[kept[j]].content,
                         edgeId |-> kept[j]]]
        variableValues ==
            IF currentNote # "" /\ includeGroupEdges
            THEN Append(fromEdges,
                        [name |-> "NOTE", content |-> currentNote, edgeId |-> 0])
            ELSE fromEdges
    IN  [values |-> resolveVariableConflicts(variableValues, G), edges |-> G]

ProvideEdges ==
    [text : {"NOTE", "x"}, content : {NoContent, "", "c"},
     isReflexive : BOOLEAN, status : {"Pending", "Complete", "Rejected"}]

InitVars ==
    /\ NoRun
    /\ fin \in [edges : SeqsUpTo(ProvideEdges, MaxVarEdges),
                 currentNote : {"", "n"}, includeGroupEdges : BOOLEAN]
    /\ fout = [done |-> FALSE, values |-> <<>>, edges |-> <<>>]

GetVariableValues ==
    /\ ~fout.done
    /\ \E got \in {getVariableValues(fin.edges, fin.currentNote,
                                      fin.includeGroupEdges)} :
           fout' = [done |-> TRUE, values |-> got.values, edges |-> got.edges]
    /\ UNCHANGED <<fin, scn, memberDeps, graph, order, started, status, content,
                   text, currentLoop, inflight, stream, execs, passes, steps>>

NextVars == GetVariableValues

SpecVars == InitVars /\ [][NextVars]_vars

-----------------------------------------------------------------------------
(* The first pass of the factory over the canvas data: nodes               *)
(* [id, type, color, file] and edges [id, color, fromNode, toNode].        *)

\* The nodes initialParse makes a vertex of: not red, and a file node
\* only for a markdown file.
keepsNode(node) ==
    /\ node.color # "1"
    /\ node.type = "file" => node.file = "md"

keepsEdge(edge) == edge.color # "1"

\* initialParse: the graph, id -> object, of the canvas.
initialParse(canvas) ==
    LET nodes == {i \in 1..Len(canvas.nodes) : keepsNode(canvas.nodes[i])}
        edges == {i \in 1..Len(canvas.edges) : keepsEdge(canvas.edges[i])}
        node(id) == canvas.nodes[CHOOSE i \in nodes : canvas.nodes[i].id = id]
        edge(id) == canvas.edges[CHOOSE i \in edges : canvas.edges[i].id = id]
    IN  [id \in {canvas.nodes[i].id : i \in nodes}
               \cup {canvas.edges[i].id : i \in edges} |->
            IF \E i \in nodes : canvas.nodes[i].id = id
            THEN [kind |-> "Vertex", source |-> "", target |-> ""]
            ELSE [kind |-> "Edge", source |-> edge(id).fromNode,
                  target |-> edge(id).toNode]]

\* The canvases of the first pass: two nodes and the two edges between
\* them, each in any colour and the nodes of any type.
CanvasNodes(id) ==
    [id : {id}, type : {"text", "link", "file", "group"},
     color : {"", "1"}, file : {"md", "png"}]
CanvasEdges(id, fromNode, toNode) ==
    [id : {id}, color : {"", "1"}, fromNode : {fromNode}, toNode : {toNode}]

InitInitial ==
    /\ NoRun
    /\ \E a \in CanvasNodes("a"), b \in CanvasNodes("b"),
          e1 \in CanvasEdges("e1", "a", "b"), e2 \in CanvasEdges("e2", "b", "a") :
          fin = [nodes |-> <<a, b>>, edges |-> <<e1, e2>>]
    /\ fout = [done |-> FALSE, graph |-> <<>>]

InitialParse ==
    /\ ~fout.done
    /\ fout' = [done |-> TRUE, graph |-> initialParse(fin)]
    /\ UNCHANGED <<fin, scn, memberDeps, graph, order, started, status, content,
                   text, currentLoop, inflight, stream, execs, passes, steps>>

NextInitial == InitialParse

SpecInitial == InitInitial /\ [][NextInitial]_vars

-----------------------------------------------------------------------------
(* Properties of a run *)

StatusChanges == SelectSeq(steps, LAMBDA st : st.from # st.to)

AlongLifecycle(st) ==
    \/ st.from = "Pending" /\ st.to = "Executing"
    \/ st.from = "Executing" /\ st.to \in Terminal
    \/ st.ev = "reset" /\ st.to = "Pending"

\* C1: every status change of every object goes Pending -> Executing,
\* Executing -> Complete, Executing -> Rejected, or back to Pending by a
\* reset; none goes Pending -> Complete, Pending -> Rejected,
\* Complete -> Rejected or Rejected -> Complete.
C1_OnlyLifecycleSteps ==
    \A i \in 1..Len(StatusChanges) : AlongLifecycle(StatusChanges[i])

GuardedKind(o) ==
    /\ ~(graph[o].kind = "Node" /\ graph[o].type = "Content")
    /\ ~(graph[o].kind = "Edge" /\ graph[o].type = "Logging")

C3_MembersFinishedIff ==
    /\ \A i \in 1..Len(steps) : steps[i].ev = "membersFinished" => steps[i].ok
    /\ \A g \in Groups :
          (status[g] = "Executing"
           /\ \A m \in Range(Members(g)) : status[m] \in Terminal)
          => passes[g] >= 1

\* C4: a repeat group with maxLoops = N is Complete only after N + 1 calls
\* of membersFinished, the first N of which loop.
C4_CompleteAfterAllPasses ==
    \A g \in Groups :
        (GroupType(g) = "Repeat" /\ status[g] = "Complete")
        => passes[g] = maxLoops(g) + 1

Quiescent == started /\ \A n \in Nodes : inflight[n] = 0

\* C6: once the cascade that follows the kick has run out (no execute() is
\* suspended, nothing is left to call back), every object is Complete or
\* Rejected, also when some node ended Rejected.
C6_CascadeEndsTerminal ==
    Quiescent => \A o \in Ids : status[o] \in Terminal

ResetsOf(isReflexive) ==
    SelectSeq(steps, LAMBDA st :
        /\ st.ev = "reset"
        /\ graph[st.o].kind = "Edge"
        /\ graph[st.o].isReflexive = isReflexive)

\* C5: reset() of a reflexive edge leaves its content and its status as they
\* were; reset() of any other edge sets its content to null and its status
\* to Pending.
C5_EdgeReset ==
    /\ \A i \in 1..Len(ResetsOf(TRUE)) :
          /\ ResetsOf(TRUE)[i].c2 = ResetsOf(TRUE)[i].c1
          /\ ResetsOf(TRUE)[i].to = ResetsOf(TRUE)[i].from
    /\ \A i \in 1..Len(ResetsOf(FALSE)) :
          /\ ResetsOf(FALSE)[i].c2 = Null
          /\ ResetsOf(FALSE)[i].to = "Pending"

\* One step reset a loaded reflexive edge and a loaded, Complete edge.
C5_Witness ==
    /\ \E i \in 1..Len(ResetsOf(TRUE)) : ResetsOf(TRUE)[i].c1 # Null
    /\ \E i \in 1..Len(ResetsOf(FALSE)) :
          /\ ResetsOf(FALSE)[i].c1 # Null
          /\ ResetsOf(FALSE)[i].from = "Complete"

Selections == {"A", "B", "Z"}

ChoiceEdgesOf(n) == {e \in Range(OutgoingOf(n)) : graph[e].type = "Choice"}

\* C8: when a choice node receives the selection s, each of its choice edges
\* with another text is Rejected and does not become Complete afterwards;
\* each of its choice edges with the text s is not rejected, holds the
\* selection as the response carried it (the function-call arguments naming
\* s), and is Complete once the node has completed.
C8_ChoiceEdges ==
    [][/\ \A n \in Nodes, s \in Selections :
             FinishChoose(n, s) =>
                \A e \in ChoiceEdgesOf(n) :
                    IF graph[e].text = s
                    THEN /\ status'[e] = "Complete"
                         /\ content'[e] = Args(s)
                         /\ ~\E i \in 1..Len(steps') :
                               steps'[i].o = e /\ steps'[i].ev = "reject"
                    ELSE status'[e] = "Rejected"
       /\ \A e \in Edges :
             (graph[e].type = "Choice" /\ status[e] = "Rejected")
             => status'[e] = "Rejected"]_vars

\* The choice node answered "B": one edge rejected, two selected.
C8_Witness ==
    /\ scn = "choose"
    /\ status["ch"] = "Complete"
    /\ status["x1"] = "Rejected"
    /\ status["x2"] = "Complete" /\ content["x2"] = Args("B")
    /\ status["x3"] = "Complete" /\ content["x3"] = Args("B")

ItemEdgesOf(n) == SelectSeq(OutgoingOf(n), LAMBDA e : graph[e].type = "Item")

\* C9: after loadOutgoingEdges on content that parses to a list of k items,
\* the i-th item edge holds the i-th item for every i <= k and exactly the
\* item edges after the k-th are Rejected, empty-string items included (an
\* edge given "" holds null, as load stores it).
C9_PositionalItems ==
    \A n \in Nodes :
        (graph[n].type = "Content" /\ status[n] = "Complete")
        => LET items == getListArrayFromContent(text[n])
               es == ItemEdgesOf(n)
           IN  \A j \in 1..Len(es) :
                   IF j <= Len(items)
                   THEN /\ status[es[j]] # "Rejected"
                        /\ content[es[j]] =
                              (IF items[j] = "" THEN Null ELSE Str(items[j]))
                   ELSE status[es[j]] = "Rejected"

\* C7: a dependency entry that is a set is satisfied exactly when every
\* member is an edge and at least one member is Complete, whatever the status
\* of the others; with a member that is not an edge it is not satisfied.
C7_SetEntry ==
    (fout.done /\ Len(fin.dependencies) = 1 /\ fin.dependencies[1].arr)
    => LET members == Range(fin.dependencies[1].ids)
       IN  fout.res <=>
              /\ \A m \in members : fin.kindOf[m] = "Edge"
              /\ \E m \in members : fin.statusOf[m] = "Complete"

\* A set of two edges is satisfied with one Complete and the other Rejected.
C7_Witness ==
    /\ fout.done /\ fout.res
    /\ Len(fin.dependencies) = 1 /\ fin.dependencies[1].arr
    /\ \E m \in Range(fin.dependencies[1].ids) : fin.statusOf[m] = "Rejected"

\* C10: a group labelled "3", with no prefix and no colour that overrides,
\* becomes a repeat group with maxLoops 3 that keeps its members, its
\* incident edges and its enclosing groups.
C10_RepeatThree ==
    (fout.done /\ fin.label = <<"3">> /\ fin.color \notin GroupColorMap)
    => /\ fout.res.result = "Repeat"
       /\ fout.res.bound = 3
       /\ fout.res.members = fin.members
       /\ fout.res.incomingEdges = fin.incomingEdges
       /\ fout.res.outgoingEdges = fin.outgoingEdges
       /\ fout.res.groups = fin.groups

\* Such a group with two nodes, edges on both sides and a group around it.
C10_Witness ==
    /\ fout.done /\ fin.label = <<"3">> /\ fin.color = ""
    /\ fin.members = <<"n1", "n2">> /\ fin.memberTypes = <<"Call", "Call">>
    /\ fin.incomingEdges # <<>> /\ fin.outgoingEdges # <<>> /\ fin.groups # <<>>
    /\ fout.res.result = "Repeat"

\* The vertices a group encloses on the canvas.
Enclosed(g) == {v \in Ids : graph[v].kind # "Edge" /\ g \in Range(graph[v].groups)}

\* C12: a basic group that is Executing becomes Complete as soon as all of
\* its members are Complete or Rejected: once a cascade has run out, no basic
\* group is still Executing with every vertex it encloses terminal.
C12_BasicGroupCompletes ==
    \A g \in Groups :
        (GroupType(g) = "Basic" /\ Enclosed(g) # {}
         /\ \A v \in Enclosed(g) : status[v] \in Terminal)
        => status[g] # "Executing"

\* C15: no failure raised inside a node's execute() escapes it: in no step
\* of a run does an exception leave execute() (each failure is turned into
\* the Rejected status of the node, with its message).
C15_NoFailureEscapes ==
    \A i \in 1..Len(steps) : steps[i].ev # "throw"

\* C16: whenever a model, HTTP or receiver collaborator returns an error
\* value during a node's execute(), the node is rejected at once, loads none
\* of its outgoing edges and does not become Complete.
C16_ErrorValueRejects ==
    \A i \in 1..Len(steps) :
        steps[i].ev = "errorValue"
        => /\ i < Len(steps)
           /\ steps[i + 1].ev = "error"
           /\ steps[i + 1].o = steps[i].o
           /\ steps[i + 1].to = "Rejected"
           /\ \A j \in (i + 1)..Len(steps) :
                 /\ ~(steps[j].ev = "load"
                      /\ steps[j].o \in Range(OutgoingOf(steps[i].o)))
                 /\ ~(steps[j].ev = "completed" /\ steps[j].o = steps[i].o)

\* A group marked as a list by prefix or colour whose label holds no integer.
NoUsableLabel(cv) ==
    \E i \in 1..Len(cv) :
        /\ cv[i].kind = "Group"
        /\ \/ cv[i].label # <<>> /\ Head(cv[i].label) \in GroupPrefixMap
           \/ cv[i].color \in GroupColorMap
        /\ parseInt(IF cv[i].label # <<>> /\ Head(cv[i].label) \in GroupPrefixMap
                    THEN Tail(cv[i].label) ELSE cv[i].label).nan

\* A choice node none of whose outgoing edges is a choice edge.
NoChoiceEdge(cv) ==
    \E i \in 1..Len(cv) :
        /\ cv[i].kind = "Node" /\ cv[i].type = "Choose"
        /\ ~\E j \in 1..Len(cv) :
              cv[j].kind = "Edge" /\ cv[j].source = cv[i].id /\ cv[j].type = "Choice"

\* C17: if a construction pass detects a construction error (a repeat or
\* list group without a usable integer label, a choice node with no outgoing
\* choice edge), parse returns no graph at all.
C17_FailsClosed ==
    (/\ fout.stage = "parsed"
     /\ NoUsableLabel(ParseCanvas(fin)) \/ NoChoiceEdge(ParseCanvas(fin)))
    => fout.res.thrown /\ fout.res.graph = <<>>

\* C18: after the group-membership pass, for every group g and every vertex
\* v whose chain of enclosing groups holds g (directly or through nested
\* groups): v is a member of g, v is a dependency of g, every non-reflexive
\* incoming edge of g is a dependency of v, and no reflexive incoming edge
\* of g has been added to v.
C18_MembershipPass ==
    fout.stage # "canvas"
    => LET cv == createNodesAndGroups(ParseCanvas(fin))
       IN  \A i, j \in 1..Len(cv) :
              (cv[i].kind = "Group" /\ cv[j].kind # "Edge"
               /\ \E k \in 1..Len(cv[j].groups) : cv[j].groups[k] = cv[i].id)
              => /\ \E k \in 1..Len(fout.pass5.members[cv[i].id]) :
                       fout.pass5.members[cv[i].id][k] = cv[j].id
                 /\ \E k \in 1..Len(fout.pass5.dependencies[cv[i].id]) :
                       fout.pass5.dependencies[cv[i].id][k] = cv[j].id
                 /\ \A e \in 1..Len(cv) :
                       (cv[e].kind = "Edge" /\ cv[e].target = cv[i].id)
                       => (~cv[e].isReflexive <=>
                             \E k \in 1..Len(fout.pass5.dependencies[cv[j].id]) :
                                fout.pass5.dependencies[cv[j].id][k] = cv[e].id)

\* The node v nested in H inside G is a member of both and has inherited
\* G's edge from outside, and not the reflexive edges of G and of H.
C18_Witness ==
    /\ fout.stage = "members" /\ fin.r1 /\ fin.r2
    /\ fout.pass5.members["G"] = <<"H", "w", "v", "K">>
    /\ fout.pass5.members["H"] = <<"v">>
    /\ fout.pass5.dependencies["G"] = <<"H", "w", "v", "K">>
    /\ fout.pass5.dependencies["v"] = <<"e1", "e3">>
    /\ fout.pass5.dependencies["H"] = <<"e1", "v">>

\* C19: in every reachable state no member of a group is Executing, or has
\* executed since it last became Pending, while some non-reflexive incoming
\* edge of that group is not Complete.
C19_MemberWaitsForGroup ==
    \A g \in Groups : \A m \in Range(Members(g)) :
        (status[m] = "Executing" \/ execs[m] > 0)
        => \A e \in Range(incomingEdges(g)) :
              ~graph[e].isReflexive => status[e] = "Complete"

\* The objects resetMembers of g is to reset.
ResetTargets(g) ==
    Range(Members(g))
    \cup UNION {Range(OutgoingOf(m)) : m \in Range(Members(g))}

\* The log positions of the calls of resetMembers, and where each returns.
ResetMembersCalls == {i \in 1..Len(steps) : steps[i].ev = "resetMembers"}
ReturnOf(i) ==
    CHOOSE j \in (i + 1)..Len(steps) :
        /\ steps[j].ev = "return" /\ steps[j].o = steps[i].o
        /\ \A k \in (i + 1)..(j - 1) : steps[k].ev # "return"

\* C20: resetMembers of a repeat group sets every member and every
\* non-reflexive outgoing edge of every member to Pending, and leaves as
\* they were the group's own status, the content and status of every
\* reflexive edge, and every object that is neither a member nor an outgoing
\* edge of a member.
C20_ResetMembersFrame ==
    \A i \in ResetMembersCalls :
        LET g == steps[i].o
            during == (i + 1)..(ReturnOf(i) - 1)
        IN  /\ \A o \in ResetTargets(g) : \E k \in during : steps[k].o = o
            /\ \A k \in during :
                  /\ steps[k].o \in ResetTargets(g)
                  /\ IF graph[steps[k].o].kind = "Edge" /\ graph[steps[k].o].isReflexive
                     THEN steps[k].to = steps[k].from /\ steps[k].c2 = steps[k].c1
                     ELSE steps[k].to = "Pending"
            /\ steps[ReturnOf(i)].from = steps[i].from
            /\ \A o \in ResetTargets(g) :
                  ~(graph[o].kind = "Edge" /\ graph[o].isReflexive)
                  => status[o] = "Pending"

\* A pass of the group ended and resetMembers reset its two members (both
\* Complete) and the loaded edge between them, and left the loaded reflexive
\* edge as it was.
C20_Witness ==
    /\ scn = "repeat"
    /\ \E i \in ResetMembersCalls :
          /\ steps[i].o = "R" /\ steps[i].from = "Executing"
          /\ \E k \in (i + 1)..(ReturnOf(i) - 1) :
                steps[k].o = "er" /\ steps[k].c1 # Null
          /\ \E k \in (i + 1)..(ReturnOf(i) - 1) :
                steps[k].o = "e1" /\ steps[k].c1 # Null /\ steps[k].from = "Complete"
          /\ \E k \in (i + 1)..(ReturnOf(i) - 1) :
                steps[k].o = "m2" /\ steps[k].from = "Complete"
    /\ status["R"] = "Executing"
    /\ content["er"] # Null
    /\ status["m1"] = "Pending" /\ status["e1"] = "Pending" /\ content["e1"] = Null

\* C21: a node with a single-id dependency that is Rejected never starts
\* executing while that dependency is Rejected, whatever other dependencies
\* complete.
C21_RejectedDependencyBlocks ==
    \A i \in 1..Len(steps) :
        (steps[i].ev = "execute" /\ graph[steps[i].o].kind = "Node")
        => steps[i].ok

\* The label, after any blanks and at most one sign, starts with a digit.
StartsWithNumber(label) ==
    \E k \in 1..Len(label) :
        /\ label[k] \in {"0", "1", "2", "3", "4", "5", "6", "7", "8", "9"}
        /\ \/ \A j \in 1..(k - 1) : label[j] = " "
           \/ /\ k > 1
              /\ label[k - 1] \in {"-", "+"}
              /\ \A j \in 1..(k - 2) : label[j] = " "

\* C22: the indicated type of a group is chosen by first match in a fixed
\* order: a reserved first character of the text, else a reserved colour,
\* else a parsed integer label (repeat), else all members non-logic
\* (non-logic), else basic; an earlier rule that matches overrides every
\* later one.
C22_FirstMatch ==
    fout.done
    => fout.indicated =
          (IF fin.label # <<>> /\ fin.label[1] = "<" THEN "List"
           ELSE IF fin.color = "5" THEN "List"
           ELSE IF StartsWithNumber(fin.label) THEN "Repeat"
           ELSE IF \A i \in 1..Len(fin.memberTypes) : fin.memberTypes[i] = "NonLogic"
                THEN "NonLogic"
           ELSE "Basic")

\* A group with the list colour and the label "3" is indicated a list, and
\* so built, with its bound 3.
C22_Witness ==
    /\ fout.done /\ fin.label = <<"3">> /\ fin.color = "5"
    /\ fin.memberTypes = <<"NonLogic", "NonLogic">>
    /\ fout.indicated = "List" /\ fout.res.result = "List"

\* A group without prefix, colour or number in its label, all of whose
\* members are non-logic: non-logic nodes or groups of this same sort.
RECURSIVE AllNonLogic(_, _)
AllNonLogic(cv, i) ==
    /\ cv[i].kind = "Group"
    /\ ~(cv[i].label # <<>> /\ cv[i].label[1] = "<")
    /\ cv[i].color # "5"
    /\ ~StartsWithNumber(cv[i].label)
    /\ \A j \in 1..Len(cv) :
          (cv[j].kind # "Edge" /\ \E k \in 1..Len(cv[j].groups) : cv[j].groups[k] = cv[i].id)
          => \/ cv[j].kind = "Node" /\ cv[j].type = "NonLogic"
             \/ cv[j].kind = "Group" /\ AllNonLogic(cv, j)

\* C23: a group all of whose members are of non-logic kind (and which has
\* no prefix, colour or numeric label) yields no runtime object: its id is
\* absent from the graph the typing pass returns, and every other object
\* keeps its id.
C23_NonLogicDropped ==
    (fout.stage = "parsed" /\ ~fout.res.thrown)
    => LET cv == createNodesAndGroups(ParseCanvas(fin))
       IN  \A i \in 1..Len(cv) :
              /\ AllNonLogic(cv, i) <=> cv[i].id \notin DOMAIN fout.res.graph
              /\ AllNonLogic(cv, i) <=>
                    ~\E k \in 1..Len(fout.res.order) : fout.res.order[k] = cv[i].id

\* The empty group M and the group N around it are gone from the graph,
\* which keeps the twelve other objects.
C23_Witness ==
    /\ fout.stage = "parsed" /\ ~fout.res.thrown
    /\ fin.li = <<"a">>
    /\ DOMAIN fout.res.graph =
          {"G", "H", "s", "w", "v", "f", "ch", "e1", "e2", "e3", "e4", "e5"}

\* The label, without its prefix and leading blanks, is the decimal numeral
\* of the positive integer n.
WholeLabelIs(label, n) ==
    LET rest == SkipSpace(IF label # <<>> /\ Head(label) = "<"
                          THEN Tail(label) ELSE label)
    IN  /\ rest # <<>>
        /\ \A k \in 1..Len(rest) : IsDigit(rest[k])
        /\ n > 0
        /\ DecimalValue(rest, 0) = n

\* C24: every repeat group and list group that construction produces has
\* a bound that is a positive integer equal to the whole label; a label that
\* is zero, negative or has other characters after a leading number makes
\* construction fail.
C24_BoundIsWholeLabel ==
    (fout.done /\ fout.res.result \in {"Repeat", "List"})
    => WholeLabelIs(fin.label, fout.res.bound)

LoggingEdges == {e \in Edges : Obj(e).type = "Logging"}

\* C25: a logging edge never executes in a state where its source vertex is
\* not Complete or where some ForEach group it crosses out of is not
\* Complete.
C25_LoggingEdgeWaits ==
    \A i \in 1..Len(steps) :
        (steps[i].ev = "execute" /\ steps[i].o \in LoggingEdges)
        => /\ steps[i].src = "Complete"
           /\ \A g \in steps[i].open : GroupType(g) # "ForEach"

\* The call node c completes while the ForEach group F around it is
\* Executing: its logging edge l hears it and does not execute.
C25_Witness ==
    /\ scn = "foreach"
    /\ status["c"] = "Complete" /\ status["F"] = "Executing"
    /\ \E i \in 1..Len(steps) :
          steps[i].ev = "update" /\ steps[i].o = "l" /\ steps[i].ok
    /\ ~\E i \in 1..Len(steps) : steps[i].ev = "execute" /\ steps[i].o = "l"
    /\ status["l"] = "Pending"

\* The call node c completes last: the group F completes first, then the
\* logging edge l executes.
C25_Executes ==
    /\ scn = "foreach"
    /\ \E i \in 1..Len(steps) :
          /\ steps[i].ev = "execute" /\ steps[i].o = "l"
          /\ steps[i].src = "Complete" /\ steps[i].open = {}
    /\ status["F"] = "Complete" /\ status["l"] = "Complete"

ContentNodes == {n \in Nodes : Obj(n).type = "Content"}

\* A chat-response edge, or a logging edge that crosses out of no ForEach
\* group.
FiresAtOnce(d) ==
    /\ Obj(d).kind = "Edge"
    /\ \/ Obj(d).type = "ChatResponse"
       \/ /\ Obj(d).type = "Logging"
          /\ \A g \in Range(crossingOutGroups(d)) : GroupType(g) # "ForEach"

\* C26: a content node executes on every completion notification from a
\* chat-response edge and from a logging edge that crosses out of no ForEach
\* group, whatever its status and its other dependencies; on a notification
\* from a logging edge that crosses out of such a group, and from any other
\* dependency, it executes only if it is Pending and all its dependencies
\* are Complete.
C26_ContentTriggers ==
    \A i \in 1..Len(steps) :
        (steps[i].ev = "update" /\ steps[i].ok /\ steps[i].o \in ContentNodes)
        => ((i < Len(steps) /\ steps[i + 1].ev = "execute"
                /\ steps[i + 1].o = steps[i].o)
            <=> (FiresAtOnce(steps[i].dep)
                 \/ (steps[i].from = "Pending" /\ steps[i].ready)))

\* The content node k hears its chat-response edge complete while its other
\* dependency is not Complete, and executes.
C26_Witness ==
    /\ scn = "chat"
    /\ \E i \in 1..(Len(steps) - 1) :
          /\ steps[i].ev = "update" /\ steps[i].ok /\ steps[i].o = "k"
          /\ steps[i].dep = "cr" /\ ~steps[i].ready
          /\ steps[i + 1].ev = "execute" /\ steps[i + 1].o = "k"
    /\ status["eu"] # "Complete"

\* The content node k hears the logging edge that crosses out of the
\* ForEach group complete while it is Pending with every dependency
\* Complete, and executes; it hears its plain edge complete before the
\* logging edge has, and waits.
C26_Guarded ==
    /\ scn = "foreach"
    /\ \/ \E i \in 1..(Len(steps) - 1) :
             /\ steps[i].ev = "update" /\ steps[i].ok /\ steps[i].o = "k"
             /\ steps[i].dep = "l" /\ steps[i].ready /\ steps[i].from = "Pending"
             /\ steps[i + 1].ev = "execute" /\ steps[i + 1].o = "k"
       \/ \E i \in 1..Len(steps) :
             /\ steps[i].ev = "update" /\ steps[i].ok /\ steps[i].o = "k"
             /\ steps[i].dep = "ed" /\ ~steps[i].ready
             /\ (i < Len(steps) => steps[i + 1].o # "k")

StreamingNodes == {n \in Nodes : Obj(n).type = "Call" /\ chatResponseEdges(n) # <<>>}

\* The log entry i is a load of the edge e.
LoadAt(i, e) == steps[i].ev = "load" /\ steps[i].o = e

\* In the step that completes n at entry i: the end marker has gone into
\* every chat-response edge, after it the concatenated chunks into every
\* other outgoing edge that is loaded, and no outgoing edge is loaded after
\* entry i.
OrderedEnd(n, i) ==
    /\ \A e \in Range(chatResponseEdges(n)) :
          \E j \in 1..(i - 1) :
             /\ LoadAt(j, e) /\ steps[j].c2 = EndOfStream
             /\ \A k \in 1..Len(steps) :
                   (\E f \in Range(OutgoingOf(n)) \ Range(chatResponseEdges(n)) :
                       LoadAt(k, f))
                   => (j < k /\ k < i /\ steps[k].c2 = Plain(stream[n].xs))
    /\ \A k \in (i + 1)..Len(steps) :
          \A f \in Range(OutgoingOf(n)) : ~LoadAt(k, f)

\* C27: in a call node with at least one outgoing chat-response edge the
\* order of events in one execution is: Executing, each non-empty chunk
\* loaded into every chat-response edge in arrival order, the end-of-stream
\* marker loaded into every chat-response edge, the concatenated message
\* loaded into the other outgoing edges, Complete; no outgoing edge is
\* loaded after the node is Complete.
C27_StreamOrder ==
    \A n \in StreamingNodes :
        /\ stream[n].on => status[n] = "Executing"
        /\ \A i \in 1..Len(steps) :
              /\ (\E e \in Range(chatResponseEdges(n)) :
                      LoadAt(i, e) /\ steps[i].c2 # EndOfStream)
                 => /\ stream[n].on /\ stream[n].xs # <<>>
                    /\ steps[i].c2 = Plain(<<stream[n].xs[Len(stream[n].xs)]>>)
              /\ (steps[i].ev = "completed" /\ steps[i].o = n) => OrderedEnd(n, i)

\* The same order in the executions that read a stream to its end.
C27_StreamRead ==
    \A n \in StreamingNodes :
        /\ stream[n].on => status[n] = "Executing"
        /\ \A i \in 1..Len(steps) :
              /\ (\E e \in Range(chatResponseEdges(n)) :
                      LoadAt(i, e) /\ steps[i].c2 # EndOfStream)
                 => /\ stream[n].on /\ stream[n].xs # <<>>
                    /\ steps[i].c2 = Plain(<<stream[n].xs[Len(stream[n].xs)]>>)
              /\ (steps[i].ev = "completed" /\ steps[i].o = n
                    /\ \E j \in 1..Len(steps) : steps[j].c2 = EndOfStream)
                 => OrderedEnd(n, i)

\* C28: a call node whose built request has an empty message list ends
\* Rejected without calling the model collaborator, without loading any
\* outgoing edge and without becoming Complete.
C28_NoMessagesRejects ==
    \A i \in 1..Len(steps) :
        (steps[i].ev = "request" /\ ~steps[i].ok)
        => /\ i < Len(steps)
           /\ steps[i + 1].ev = "error" /\ steps[i + 1].o = steps[i].o
           /\ steps[i + 1].to = "Rejected"
           /\ \A k \in 1..Len(steps) :
                 /\ ~(steps[k].ev \in {"callLLM", "completed"} /\ steps[k].o = steps[i].o)
                 /\ \A f \in Range(OutgoingOf(steps[i].o)) : ~LoadAt(k, f)

\* The call node s of the chat diagram gets a request without messages: it
\* is Rejected, its edges hold nothing and are not Complete.
C28_Witness ==
    /\ scn = "chat"
    /\ steps # <<>> /\ steps[1].ev = "request" /\ steps[1].o = "s" /\ ~steps[1].ok
    /\ status["s"] = "Rejected"
    /\ content["b"] = Null /\ content["cr"] = Null
    /\ status["b"] # "Complete" /\ status["cr"] # "Complete"
    /\ ~stream["s"].on

\* The log st holds an entry ev of the object o.
Logged(st, ev, o) == \E i \in 1..Len(st) : st[i].ev = ev /\ st[i].o = o

\* The text a is the start of the text b.
IsPrefix(a, b) ==
    /\ Len(a.xs) <= Len(b.xs)
    /\ SubSeq(b.xs, 1, Len(a.xs)) = a.xs

\* C29: each load of a logging edge appends to its content: the content
\* before a load is a prefix of the content after it, until the edge is
\* reset.
C29_LoadAppends ==
    [][\A e \in LoggingEdges :
          (Logged(steps', "load", e) /\ ~Logged(steps', "reset", e))
          => /\ IsPrefix(content[e], content'[e])
             /\ ~Logged(steps', "throw", e) => Len(content'[e].xs) > Len(content[e].xs)]_vars

\* A logging edge that held one transcript has been loaded again and holds
\* two.
C29_Witness ==
    \E e \in LoggingEdges :
        /\ \E i \in 1..Len(steps) : LoadAt(i, e) /\ steps[i].c1 = Logs
        /\ content[e] = Plain(<<"log", "\n", "log">>)

\* The config edges edges give the setting key.
Gives(edges, key) ==
    \E i \in 1..Len(edges) :
        \/ edges[i].content.k = "str" /\ edges[i].text = key
        \/ /\ edges[i].content.k = "obj"
           /\ \E j \in 1..Len(edges[i].content.kv) : edges[i].content.kv[j][1] = key

\* The text the single edge of edges gives for key.
Given(edges, key) ==
    IF edges[1].content.k = "str" THEN edges[1].content.v
    ELSE LET j == CHOOSE j \in 1..Len(edges[1].content.kv) :
                      edges[1].content.kv[j][1] = key
         IN  edges[1].content.kv[j][2]

\* The value of a setting given as the text v: a number where the setting
\* is numeric, the text otherwise.
SettingValue(key, v) ==
    IF key = "temperature"
    THEN IF v \in {<<"1">>, <<"2">>}
         THEN [t |-> "number", nan |-> FALSE, n |-> IF v = <<"1">> THEN 1 ELSE 2]
         ELSE [t |-> "number", nan |-> TRUE, n |-> 0]
    ELSE [t |-> "string", v |-> v]

\* C30: in the configuration a call node builds, when the same setting is
\* given by config edges at several levels, the value from the node's own
\* incoming config edge overrides the value from any enclosing group, and
\* the value from an inner enclosing group overrides that from an outer one.
C30_InnermostWins ==
    fout.done =>
      \A key \in {"temperature", "model"} :
        /\ Gives(fin.own, key)
              => fout.res.cfg[key] = SettingValue(key, Given(fin.own, key))
        /\ \A i \in 1..Len(fin.groups) :
              (/\ Gives(fin.groups[i], key)
               /\ ~Gives(fin.own, key)
               /\ \A j \in 1..(i - 1) : ~Gives(fin.groups[j], key))
              => fout.res.cfg[key] = SettingValue(key, Given(fin.groups[i], key))

\* The node's own edge sets model "x" over the "2" of the inner group, whose
\* temperature 1 stands over the 2 of the outer group.
C30_Witness ==
    /\ fout.done
    /\ fin.own = << [text |-> "model", content |-> [k |-> "str", v |-> <<"x">>]] >>
    /\ fin.groups =
          << << [text |-> "",
                 content |-> [k |-> "obj",
                              kv |-> << <<"temperature", <<"1">> >>,
                                        <<"model", <<"2">> >> >>]] >>,
             << [text |-> "temperature", content |-> [k |-> "str", v |-> <<"2">>]] >> >>
    /\ fout.res.cfg["model"] = [t |-> "string", v |-> <<"x">>]
    /\ fout.res.cfg["temperature"] = [t |-> "number", nan |-> FALSE, n |-> 1]

\* The words of a text, in order, without blanks and role markers.
Words(str) == SelectSeq(str, LAMBDA t : t \in {"a", "b"})

\* The position of the first role marker of a text, Len + 1 without one.
FirstMarker(str) ==
    IF \E i \in 1..Len(str) : str[i] \in {"usr", "ast", "sys"}
    THEN CHOOSE i \in 1..Len(str) :
            /\ str[i] \in {"usr", "ast", "sys"}
            /\ \A j \in 1..(i - 1) : str[j] \notin {"usr", "ast", "sys"}
    ELSE Len(str) + 1

\* C31: when the converter edge parses a text into messages, the text before
\* the first role marker becomes a leading "user" message and no part of
\* the input text is dropped.
C31_NothingDropped ==
    fout.done =>
      /\ Words(SubSeq(fin, 1, FirstMarker(fin) - 1)) # <<>>
            => /\ fout.messages # <<>>
               /\ fout.messages[1].role = "user"
               /\ Words(fout.messages[1].content)
                     = Words(SubSeq(fin, 1, FirstMarker(fin) - 1))
      /\ Words(fin)
            = Words(Flatten([i \in 1..Len(fout.messages) |-> fout.messages[i].content]))

\* C32: the values returned hold one value for each name, and whenever the
\* run itself supplies a name (the entry without an edge id) next to edges
\* of that name, the value of the run is the one returned.
C32_RunValueSelected ==
    fout.done =>
      /\ \A i, j \in 1..Len(fout.values) :
             fout.values[i].name = fout.values[j].name => i = j
      /\ (fin.currentNote # "" /\ fin.includeGroupEdges)
             => \E i \in 1..Len(fout.values) :
                   /\ fout.values[i].name = "NOTE"
                   /\ fout.values[i].edgeId = 0

\* C38: reading the variables leaves every edge as it was; the content
\* of a reflexive edge that is loaded and not Complete is the same after
\* the read.
C38_EdgesUntouched ==
    fout.done => fout.edges = fin.edges

\* The entries i < j of the log belong to one execution of o: o is not
\* reset between them.
SameExecution(i, j, o) ==
    \A k \in (i + 1)..(j - 1) : ~(steps[k].ev = "reset" /\ steps[k].o = o)

\* C33: once a node has recorded an error (Rejected) during an execution,
\* the same execution does not set it Complete afterwards.
C33_ErrorStaysRejected ==
    \A i, j \in 1..Len(steps) :
        /\ i < j
        /\ steps[i].ev = "error" /\ steps[i].to = "Rejected"
        /\ graph[steps[i].o].kind = "Node"
        /\ steps[j].o = steps[i].o
        /\ SameExecution(i, j, steps[i].o)
        => ~(steps[j].ev = "completed" /\ steps[j].to = "Complete")

\* C34: in every reachable state the currentLoop of a repeat group is a
\* defined integer from 0 to maxLoops: 0 from construction on.
C34_LoopCounterInRange ==
    \A g \in Groups :
        GroupType(g) = "Repeat"
        => /\ currentLoop[g].def
           /\ currentLoop[g].n \in 0..maxLoops(g)
           /\ ~started => currentLoop[g] = [def |-> TRUE, n |-> 0]

\* C35: when a repeat group that has loops left resets its members, every
\* member whose dependencies are all Complete starts executing again in
\* the cascade of that reset, with no event from outside; so the cascade
\* never ends with the group Executing over a member that is Pending
\* although nothing it depends on is outstanding.
C35_MembersRestart ==
    \A i \in ResetMembersCalls :
        \A m \in Range(Members(steps[i].o)) :
            (graph[m].kind = "Node" /\ allDependenciesComplete(Dependencies(m), status, KindOf))
            => \E j \in (i + 1)..Len(steps) :
                  steps[j].ev = "executing" /\ steps[j].o = m

\* C36: after the initial parse every edge of the graph has a source id
\* and a target id that are keys of the graph, also when a node in the
\* disabled colour has enabled edges attached.
C36_EdgesHaveEnds ==
    fout.done =>
      \A id \in DOMAIN fout.graph :
          fout.graph[id].kind = "Edge"
          => /\ fout.graph[id].source \in DOMAIN fout.graph
             /\ fout.graph[id].target \in DOMAIN fout.graph

\* C37: in the graph the typing pass returns, every id among a group's
\* members and every id among a vertex's enclosing groups is a key of the
\* graph, and the members of every typed group, basic groups included, are
\* exactly the vertices whose chain of groups contains it.
C37_MembershipClosed ==
    (fout.stage = "parsed" /\ ~fout.res.thrown) =>
      LET G == fout.res.graph
      IN  \A id \in DOMAIN G :
            /\ G[id].kind # "Edge"
                  => \A g \in Range(G[id].groups) : g \in DOMAIN G
            /\ G[id].kind = "Group"
                  => /\ Range(G[id].members) \subseteq DOMAIN G
                     /\ Range(G[id].members) =
                           {v \in DOMAIN G : /\ G[v].kind # "Edge"
                                             /\ id \in Range(G[v].groups)}

\* The state after construction, from what a run leaves unchanged (the
\* text of a diagram other than the list diagram is the same in each node).
Constructed ==
    [status |-> [id \in Ids |-> IF Obj(id).type = "Floating" THEN "Complete" ELSE "Pending"],
     content |-> [e \in Edges |-> Null],
     text |-> IF scn = "list" THEN text ELSE [n \in Nodes |-> Plain(<<"t">>)],
     currentLoop |-> [g \in Groups |-> Undefined],
     inflight |-> [n \in Nodes |-> 0],
     stream |-> [n \in Nodes |-> [on |-> FALSE, xs |-> <<>>]],
     execs |-> [id \in Ids |-> 0],
     passes |-> [g \in Groups |-> 0], steps |-> <<>>]

\* The frames of the step of NextOrder that resumes node n in state S.
OrderFrames(S, n) ==
    CASE Obj(n).type = "Call" ->
            <<<<RequestOp(n, TRUE)>> \o CallNode_resume(n, "ok")>>
      [] Obj(n).type = "Choose" ->
            <<<<RequestOp(n, TRUE), MkOp("callLLM", n)>>
              \o ChooseNode_loadOutgoingEdges(n, Args("A"), TRUE)
              \o <<MkOp("completed", n)>>>>
      [] Obj(n).type = "Content" ->
            <<CannoliNode_loadOutgoingEdges(n, S.text[n], FALSE)
              \o <<MkOp("completed", n)>>>>
      [] OTHER -> <<HttpNode_resume(n, "ok")>>

\* The run in which the waiting node that comes first in the graph is
\* always the next to be resumed, up to its end.
RECURSIVE RunInOrder(_)
RunInOrder(S) ==
    LET waiting == SelectSeq(IdsInOrder, LAMBDA n : n \in Nodes /\ S.inflight[n] > 0)
    IN  IF waiting = <<>> THEN S
        ELSE RunInOrder(Drain([S EXCEPT !.inflight[waiting[1]] = @ - 1],
                              OrderFrames(S, waiting[1])))

InOrderEnd ==
    LET roots == SelectSeq(IdsInOrder, LAMBDA o : Dependencies(o) = <<>>)
    IN  RunInOrder(Drain(Constructed, <<[i \in 1..Len(roots) |-> MkOp("check", roots[i])]>>))

\* C39: when every node's effect is fixed, the final status of every
\* object and the final content of every edge are the same whatever the
\* order in which independent sibling branches finish: every run ends as
\* the run that resumes the nodes in graph order ends.
C39_OrderIndependent ==
    Quiescent =>
      \E end \in {InOrderEnd} : status = end.status /\ content = end.content

FloatingNodes == {n \in Nodes : graph[n].type = "Floating"}

\* C14: a floating node is Complete in every reachable state of a run, and a
\* dependencyCompleted or dependencyRejected update delivered to it changes
\* neither its status nor the state of any other object.
C14_FloatingStaysComplete ==
    /\ [](\A n \in FloatingNodes : status[n] = "Complete")
    /\ [][\A n \in Nodes, d \in Ids, a \in {"Complete", "Rejected"} :
            Deliver(n, d, a) =>
                UNCHANGED <<status, content, text, currentLoop, inflight,
                            stream, execs, passes>>]_vars

\* The repeat group drawn around a floating node has reset its members for
\* another pass, and the floating node has just been handed an update.
C14_Witness ==
    /\ scn = "cross"
    /\ currentLoop["R"] = [def |-> TRUE, n |-> 1]
    /\ status["k"] = "Pending"
    /\ status["f"] = "Complete"
    /\ Len(steps) = 1 /\ steps[1].ev = "update" /\ steps[1].o = "f"

\* The ids named by the dependency list of o.
DependencyIds(o) ==
    UNION {Range(Dependencies(o)[i].ids) : i \in 1..Len(Dependencies(o))}

\* C13: a Pending group whose members are in its dependency list moves to
\* Executing as soon as every non-reflexive incoming edge it depends on is
\* Complete, whatever the status of its members: once a cascade has run out
\* no such group is still Pending with all those edges Complete.
C13_GroupStartsOnEdges ==
    \A g \in Groups :
        (/\ Members(g) # <<>>
         /\ Range(Members(g)) \subseteq DependencyIds(g)
         /\ \E e \in Range(incomingEdges(g)) : ~graph[e].isReflexive
         /\ \A e \in Range(incomingEdges(g)) :
               ~graph[e].isReflexive => status[e] = "Complete")
        => status[g] # "Pending"

Abc == <<"a", "b", "c">>

\* C11 (as stated): constructing a graph with a group labelled "abc", with no
\* prefix and no colour that indicates a kind, fails with a configuration
\* error and yields no graph.
C11_AbcFails ==
    (fout.done /\ fin.label = Abc /\ fin.color \notin GroupColorMap)
    => fout.res.result = "error"

\* C11 (as amended): such a group does not fail construction: it becomes a
\* basic group, or no object at all when every member is non-logic; the
\* error is that of a group marked as a list (by prefix or by colour) whose
\* label holds no integer.
C11_AbcBasic ==
    /\ (fout.done /\ fin.label = Abc /\ fin.color \notin GroupColorMap)
       => fout.res.result =
             (IF \A i \in 1..Len(fin.memberTypes) : fin.memberTypes[i] = "NonLogic"
              THEN "null" ELSE "Basic")
    /\ (fout.done /\ fin.label = Abc /\ fin.color \in GroupColorMap)
       => fout.res.result = "error"
    /\ (fout.done /\ fin.label = <<"<", "a">>) => fout.res.result = "error"

\* The group "abc" around two call nodes was typed basic.
C11_Witness ==
    /\ fout.done /\ fin.label = Abc /\ fin.color = ""
    /\ fin.memberTypes = <<"Call", "Call">>
    /\ fout.res.result = "Basic"

====
